---- MODULE Spec2Model ----
(***************************************************************************)
(* Rate limiter of RateLimit-Golang-Challenge: the two limiters            *)
(* (SlidingWindow, LeakyBucket) working against the shared Redis store,    *)
(* and the Service that resolves per-user limits through a local cache.    *)
(*                                                                         *)
(* Time is in milliseconds, as in the code (time.Now().UnixMilli()).       *)
(* The leaky bucket's level is a Lua number; the model stores it exactly,  *)
(* as an integer count of 1/WindowSize requests (level * WindowSize).      *)
(***************************************************************************)
EXTENDS Integers, Sequences, FiniteSets, Bags, TLC

\* ------------------------------------------------------------------ bounds
MaxTicks == 2           \* how many times the clock advances in a behaviour
MaxCalls == 4           \* Allow calls per identity between two Resets;
                        \* Service calls begun in a behaviour
WindowSize == 2         \* config.WindowSize, in seconds (an input)
MaxValue == 12          \* overrides set in the round-trip runs: -MaxValue..MaxValue

\* ------------------------------------------------------- program constants
MsPerSec == 1000        \* window_size_ms / 1000 in both Lua scripts
LocalCacheTTL == 60     \* config.LocalCacheTTL, in seconds (the default)

WindowMs == WindowSize * MsPerSec
Ids == {"a"}
\* the identities that have keys in the store; the runs that are about one
\* identity draw their callers from Ids
Identities == Ids \cup {"b"}
Limits == {1, 2}
Algorithms == {"sliding_window", "leaky_bucket"}
Nil == "nil"
NoTTL == -1
\* Clock steps: the next millisecond, just inside a window, exactly a window.
Steps == {1, WindowMs - 1, WindowMs}

Max(a, b) == IF a >= b THEN a ELSE b

VARIABLES
    clock,        \* wall clock, ms
    ticks,        \* number of clock advances so far
    algorithm,    \* config.Algorithm
    limit,        \* the limit the callers pass to the limiter
    zset,         \* rate_limit:sliding:<id>: the members of the sorted set
    zttl,         \* its expiry time, or NoTTL
    bucket,       \* rate_limit:leaky:<id>: the hash's fields level, last_update
    bttl,         \* its expiry time, or NoTTL
    inflight,     \* calls that took their timestamp and have not reached the store
    log,          \* per identity: the Allow calls executed since the record was fresh
    last,         \* the call that completed last, with its result
    enableLocalCache,  \* config.EnableLocalCache
    override,     \* rate_limit:config:<id>: the stored string, or NoValue
    ottl,         \* its expiry time, or NoTTL
    userLimitsCache,   \* Service.userLimitsCache: a map from identities to limits
    cacheExpiry,       \* Service.cacheExpiry: a map from identities to times
    pc,           \* where each goroutine stands in its Service call
    frame,        \* the locals of each goroutine's Service call
    setDone,      \* per identity: the SetUserLimit that returned last
    slast,        \* the Service call that returned last, with its result,
                  \* until the next call begins
    served,       \* Service calls and foreign writes begun so far
    cacheMutex,   \* Service.cacheMutex: the goroutines holding it for reading
                  \* and for writing
    written,      \* per identity: the value and expiry put by the cache write
                  \* that completed last, NoSet once cleanup deleted the entry
    cleanupPc,    \* where the cleanupCache goroutine stands
    mw            \* the rate-limiter middleware: where it stands in a request,
                  \* what RateLimit returned to it and what it answered

store == <<zset, zttl, bucket, bttl>>
cfg == <<algorithm, limit>>
limVars == <<inflight, log, last>>
svcVars == <<enableLocalCache, override, ottl, userLimitsCache, cacheExpiry,
             pc, frame, setDone, slast, served>>
lockVars == <<cacheMutex, written, cleanupPc, mw>>
vars == <<clock, ticks, algorithm, limit, zset, zttl, bucket, bttl,
          inflight, log, last, enableLocalCache, override, ottl,
          userLimitsCache, cacheExpiry, pc, frame, setDone, slast,
          served, cacheMutex, written, cleanupPc, mw>>

\* now: the caller's timestamp; at: when the store ran the call; failed: the
\* store call did not go through; allowed, remaining, err: what the call
\* returned; n, count: ghost values taken when the store ran it.
NoCall == [op |-> "none", id |-> Nil, now |-> 0, at |-> 0, allowed |-> FALSE,
           remaining |-> 0, err |-> FALSE, failed |-> FALSE, n |-> 0, count |-> 0]

\* (mutant) a failed store call is reported as a denial
AllowReturnFailClosed(failed, scriptAllowed) ==
    [allowed |-> IF failed THEN FALSE ELSE scriptAllowed, err |-> FALSE]

\* if err != nil { return false, fmt.Errorf(...) }; allowed := result == 1
AllowReturn(failed, scriptAllowed) ==
    [allowed |-> IF failed THEN FALSE ELSE scriptAllowed, err |-> failed]

\* if err != nil { return 0, fmt.Errorf(...) }
GetRemainingReturn(failed, remaining) ==
    [remaining |-> IF failed THEN 0 ELSE remaining, err |-> failed]

\* return client.Del(ctx, key).Err(): DEL of a missing key is not an error
ResetReturn(failed, existed) == failed

\* --------------------------------------------------------- sliding window
\* (mutant) a purge that keeps the entry whose score is window_start
PurgeBelow(s, windowStart) == {m \in s : m >= windowStart}

\* redis.call('ZREMRANGEBYSCORE', key, '-inf', window_start): bounds inclusive
Purge(s, windowStart) == {m \in s : m > windowStart}

\* (mutant) an expiry one second short of the window
ExpireSecsInsideWindow == (WindowMs \div MsPerSec) - 1

\* math.ceil(window_size_ms / 1000) + 1, in seconds
ExpireSecs == ((WindowMs + MsPerSec - 1) \div MsPerSec) + 1

\* the Lua script of SlidingWindow.Allow: the members it leaves in the set
SWCount(id, now) == Cardinality(Purge(zset[id], now - WindowMs))

SWAllowed(id, now, lim) == SWCount(id, now) < lim

\* (mutant) the denied request is recorded as well
SWAfterAllowRecordsAll(id, now, lim) == Purge(zset[id], now - WindowMs) \cup {now}

\* ZADD key current_time current_time: the member is the timestamp itself
SWAfterAllow(id, now, lim) ==
    IF SWAllowed(id, now, lim)
    THEN Purge(zset[id], now - WindowMs) \cup {now}
    ELSE Purge(zset[id], now - WindowMs)

\* (mutant) EXPIRE on both paths
SWTtlAfterAllowAlways(id, now, lim) ==
    IF SWAfterAllow(id, now, lim) = {} THEN NoTTL
    ELSE clock + ExpireSecs * MsPerSec

\* EXPIRE on the allowed path only; Redis drops a sorted set that became empty
SWTtlAfterAllow(id, now, lim) ==
    IF SWAllowed(id, now, lim) THEN clock + ExpireSecs * MsPerSec
    ELSE IF Purge(zset[id], now - WindowMs) = {} THEN NoTTL
    ELSE zttl[id]

\* (mutant) the request being asked about is counted as well
SWRemainingOffByOne(count, lim) == Max(0, lim - count - 1)

\* SlidingWindow.GetRemaining: limit - count, floored at 0
SWRemaining(count, lim) == Max(0, lim - count)

\* ------------------------------------------------------------ leaky bucket
\* a hash holds the fields that were set: HMSET sets both, HSET last_update
\* on a missing key creates a hash without a level. bad_level, bad_last: the
\* field holds a string that is not a number (written by another client).
NoBucket == [has_level |-> FALSE, level |-> 0, has_last |-> FALSE, last_update |-> 0,
             bad_level |-> FALSE, bad_last |-> FALSE]

\* level = tonumber(bucket_data[1]); last_update = tonumber(bucket_data[2]):
\* tonumber gives nil for a missing field and for a string that is not a
\* number, and the arithmetic on nil that follows aborts the script
LBScriptFails(id) ==
    /\ bucket[id].has_level
    /\ bucket[id].bad_level \/ bucket[id].bad_last \/ ~bucket[id].has_last

\* strconv.ParseFloat(level) or strconv.ParseInt(last_update) fails
LBParseFails(id) == bucket[id].bad_level \/ bucket[id].bad_last

\* if bucket_data[1] then ... end
HasLevel(id) == bucket[id].has_level

\* elapsed * leak_rate, with leak_rate = limit / (window_size_ms / 1000);
\* scaled by WindowSize: elapsed * limit
LBLeaked(elapsed, lim) == elapsed * lim

\* the decayed level the script computes before deciding
LBLevel(id, now, lim) ==
    LET level == IF HasLevel(id) THEN bucket[id].level ELSE 0
        lastUpdate == IF HasLevel(id) THEN bucket[id].last_update ELSE now
    IN  Max(0, level - LBLeaked(now - lastUpdate, lim))

\* int(currentLevel) and math.Round(currentLevel) of a level that is not
\* negative and is kept scaled by WindowSize
Trunc(level) == level \div WindowSize
Round(level) == (2 * level + WindowSize) \div (2 * WindowSize)

\* (mutant) the comparison is made on the rounded level
LBAllowedRounded(id, now, lim) == Round(LBLevel(id, now, lim)) < lim

\* (mutant) "if bucket level <= capacity, allow the request"
LBAllowedAtCapacity(id, now, lim) == LBLevel(id, now, lim) <= lim * WindowSize

\* if level < limit then
LBAllowed(id, now, lim) == LBLevel(id, now, lim) < lim * WindowSize

\* (mutant) the denied path stores the decayed level too
LBAfterAllowWritesBack(id, now, lim) ==
    [has_level |-> TRUE,
     level |-> LBLevel(id, now, lim) + (IF LBAllowed(id, now, lim) THEN WindowSize ELSE 0),
     has_last |-> TRUE, last_update |-> now,
     bad_level |-> FALSE, bad_last |-> FALSE]

\* HMSET level, last_update when allowed; HSET last_update when denied
LBAfterAllow(id, now, lim) ==
    IF LBAllowed(id, now, lim)
    THEN [has_level |-> TRUE, level |-> LBLevel(id, now, lim) + WindowSize,
          has_last |-> TRUE, last_update |-> now,
          bad_level |-> FALSE, bad_last |-> FALSE]
    ELSE [bucket[id] EXCEPT !.has_last = TRUE, !.last_update = now,
                            !.bad_last = FALSE]

\* (mutant) remaining := limit - round(currentLevel)
LBRemainingRounded(id, now, lim) ==
    IF ~bucket[id].has_level \/ ~bucket[id].has_last THEN lim
    ELSE IF LBParseFails(id) THEN lim
    ELSE LET currentLevel ==
                 Max(0, bucket[id].level - LBLeaked(now - bucket[id].last_update, lim))
         IN  Max(0, lim - Round(currentLevel))

\* LeakyBucket.GetRemaining
LBRemaining(id, now, lim) ==
    IF ~bucket[id].has_level \/ ~bucket[id].has_last THEN lim
    ELSE IF LBParseFails(id) THEN lim
    ELSE LET currentLevel ==
                 Max(0, bucket[id].level - LBLeaked(now - bucket[id].last_update, lim))
         IN  Max(0, lim - Trunc(currentLevel))

\* --------------------------------------------------------- service: values
Procs == {"g1", "g2"}
OverrideValues == {1, 2}
CacheTtlMs == LocalCacheTTL * MsPerSec
\* Clock steps of the service runs: just inside the cache TTL, exactly the
\* cache TTL, just beyond it.
SvcSteps == {CacheTtlMs - 1, CacheTtlMs, CacheTtlMs + 1}

\* The value of rate_limit:config:<id> is a string, a sequence of
\* characters: absent, a decimal number, or something else (written by
\* another client of the store).
NoValue == [present |-> FALSE, str |-> <<>>]
Garbage == [present |-> TRUE, str |-> <<"x">>]

DigitChars == <<"0", "1", "2", "3", "4", "5", "6", "7", "8", "9">>

\* strconv's decimal digits of a number >= 0
RECURSIVE Digits(_)
Digits(n) ==
    IF n < 10 THEN <<DigitChars[n + 1]>>
    ELSE Append(Digits(n \div 10), DigitChars[(n % 10) + 1])

\* (mutant) the sign is not written
FormatIntUnsigned(n) ==
    [present |-> TRUE, str |-> IF n < 0 THEN Digits(-n) ELSE Digits(n)]

\* redisClient.Set(ctx, key, limit, ttl) stores the integer in decimal
FormatInt(n) ==
    [present |-> TRUE, str |-> IF n < 0 THEN <<"-">> \o Digits(-n) ELSE Digits(n)]

\* what another client of the store leaves under the key: a limit set by
\* another instance, or a string that is not a number
ForeignValues == {FormatInt(2), Garbage}

IsDigit(c) == \E d \in 1..Len(DigitChars) : DigitChars[d] = c
DigitValue(c) == (CHOOSE d \in 1..Len(DigitChars) : DigitChars[d] = c) - 1

\* the number a sequence of digits stands for
RECURSIVE Number(_)
Number(s) ==
    IF s = <<>> THEN 0
    ELSE Number(SubSeq(s, 1, Len(s) - 1)) * Len(DigitChars) + DigitValue(s[Len(s)])

\* parseInt: an error for "", else strconv.Atoi: an optional sign, then one
\* or more digits, an error for anything else
ParseInt(val) ==
    LET s == val.str
        signed == s # <<>> /\ s[1] \in {"-", "+"}
        body == IF signed THEN Tail(s) ELSE s
        ok == body # <<>> /\ \A i \in 1..Len(body) : IsDigit(body[i])
    IN  [err |-> ~ok,
         n |-> IF ~ok THEN 0
               ELSE IF signed /\ s[1] = "-" THEN -Number(body) ELSE Number(body)]

\* Go maps: functions whose domain is the set of keys
EmptyMap == [i \in {} |-> 0]
Put(map, k, v) == [i \in DOMAIN map \cup {k} |-> IF i = k THEN v ELSE map[i]]
Delete(map, ks) == [i \in DOMAIN map \ ks |-> map[i]]

NoSet == [v |-> 0, exp |-> -1]

\* sync.RWMutex: nobody holds it
Unlocked == [readers |-> {}, writer |-> {}]

\* the cleanupCache goroutine waits for its ticker
CleanupWaits == [at |-> "wait", now |-> 0, id |-> "nil"]

\* the middleware between two requests, before its first request
MwIdle == [at |-> "idle", id |-> Nil, allowed |-> FALSE, err |-> FALSE, out |-> "none"]

\* The locals of a Service call: ul, rerr are what getUserLimit returns, hit
\* the branch its cache test took. The rest is taken down for the record:
\* live, seen: whether the cache held an unexpired entry when it was tested,
\* and the value found (in the cache, else in the store); covered, coverV,
\* inTtl, untouched: whether a SetUserLimit had returned when the call began,
\* its value, whether the entry it wrote was unexpired, and whether the cache
\* held no entry written since.
IdleFrame == [op |-> "none", id |-> Nil, v |-> 0, ul |-> 0, rerr |-> FALSE,
              lookups |-> 0, hit |-> FALSE, storeSeen |-> "none",
              live |-> FALSE, seen |-> 0,
              covered |-> FALSE, coverV |-> 0, inTtl |-> FALSE, untouched |-> FALSE]

\* lim: the limit handed to the limiter; decision: what the script decided;
\* hit, storeSeen, lookups, rerr: how the limit was resolved
NoSvcCall == [op |-> "none", id |-> Nil, lim |-> 0, allowed |-> FALSE,
              decision |-> FALSE, remaining |-> 0, err |-> FALSE, failed |-> FALSE,
              hit |-> FALSE, storeSeen |-> "none", lookups |-> 0, rerr |-> FALSE,
              live |-> FALSE, seen |-> 0, covered |-> FALSE, coverV |-> 0,
              inTtl |-> FALSE, untouched |-> FALSE, v |-> 0]

\* (mutant) an entry is served whether or not it has expired
CacheHitIgnoringExpiry(id) ==
    /\ id \in DOMAIN userLimitsCache
    /\ id \in DOMAIN cacheExpiry

\* getUserLimit's cache test:
\*   limit, exists := userLimitsCache[id]; expiry, ok := cacheExpiry[id];
\*   exists && ok && time.Now().Before(expiry)
CacheHit(id) ==
    /\ id \in DOMAIN userLimitsCache
    /\ id \in DOMAIN cacheExpiry
    /\ clock < cacheExpiry[id]

\* (mutant) what getUserLimit returned is used as it is
EffectiveLimitNoFallback(ul, rerr, f) == ul

\* RateLimit / GetRemaining: if err != nil { userLimit = limit };
\* if userLimit == 0 { userLimit = limit }
EffectiveLimit(ul, rerr, f) == IF rerr THEN f ELSE IF ul = 0 THEN f ELSE ul

\* what redisClient.Get(ctx, key).Result() and parseInt make of the value
GetReply(val) ==
    IF ~val.present THEN "nil"
    ELSE IF ParseInt(val).err THEN "invalid"
    ELSE "value"

\* getUserLimit returns an error for an unparsable value, none for redis.Nil
LookupError(reply) == reply \in {"error", "invalid"}

\* ------------------------------------------------------------------- ghost
\* how many requests of this identity were admitted with a timestamp in
\* the trailing window (now - W, now]
AdmittedIn(id, now) ==
    Cardinality({k \in 1..Len(log[id]) :
        /\ log[id][k].allowed
        /\ log[id][k].now > now - WindowMs
        /\ log[id][k].now <= now})

AllowsInFlight(id) ==
    BagCardinality([c \in {d \in BagToSet(inflight) : d.op = "Allow" /\ d.id = id}
                    |-> inflight[c]])

\* -------------------------------------------------------------------- Init
\* NewService: empty cache maps; the store holds no key
InitCommon ==
    /\ clock = 0
    /\ ticks = 0
    /\ algorithm \in Algorithms
    /\ limit \in Limits
    /\ zset = [i \in Identities |-> {}]
    /\ zttl = [i \in Identities |-> NoTTL]
    /\ bucket = [i \in Identities |-> NoBucket]
    /\ bttl = [i \in Identities |-> NoTTL]
    /\ inflight = EmptyBag
    /\ log = [i \in Identities |-> <<>>]
    /\ last = NoCall
    /\ override = [i \in Identities |-> NoValue]
    /\ ottl = [i \in Identities |-> NoTTL]
    /\ userLimitsCache = EmptyMap
    /\ cacheExpiry = EmptyMap
    /\ pc = [p \in Procs |-> "idle"]
    /\ frame = [p \in Procs |-> IdleFrame]
    /\ setDone = [i \in Identities |-> NoSet]
    /\ slast = NoSvcCall
    /\ served = 0
    /\ cacheMutex = Unlocked
    /\ written = [i \in Identities |-> NoSet]
    /\ cleanupPc = CleanupWaits
    /\ mw = MwIdle

\* the limiters used directly, as in the limiter tests
Init ==
    /\ InitCommon
    /\ enableLocalCache = FALSE

\* the limiters used through the Service
InitSvc ==
    /\ InitCommon
    /\ enableLocalCache \in BOOLEAN

\* the identity has no limiter record, as before its first request
Fresh(id) ==
    IF algorithm = "sliding_window"
    THEN zset[id] = {} /\ zttl[id] = NoTTL
    ELSE bucket[id] = NoBucket /\ bttl[id] = NoTTL

\* ----------------------------------------------------------------- actions
Call(op, id, now, phase) == [op |-> op, id |-> id, now |-> now, phase |-> phase]

Take(c) == inflight' = inflight (-) SetToBag({c})

Done(op, id, now) == [NoCall EXCEPT !.op = op, !.id = id, !.now = now]

\* The caller enters Allow / GetRemaining / Reset once its previous call has
\* returned: key := prefix + userID; now := time.Now()
InvokeAllow(id) ==
    /\ inflight = EmptyBag
    /\ Len(log[id]) + AllowsInFlight(id) < MaxCalls
    /\ inflight' = inflight (+) SetToBag({Call("Allow", id, clock, "eval")})
    /\ UNCHANGED <<clock, ticks, cfg, lockVars, store, log, last, svcVars>>

InvokeGetRemaining(id) ==
    /\ inflight = EmptyBag
    /\ inflight' = inflight (+) SetToBag({Call("GetRemaining", id, clock,
                        IF algorithm = "sliding_window" THEN "zrem" ELSE "hmget")})
    /\ UNCHANGED <<clock, ticks, cfg, lockVars, store, log, last, svcVars>>

InvokeReset(id) ==
    /\ inflight = EmptyBag
    /\ inflight' = inflight (+) SetToBag({Call("Reset", id, 0, "del")})
    /\ UNCHANGED <<clock, ticks, cfg, lockVars, store, log, last, svcVars>>

\* SlidingWindow.Allow: the Lua script runs atomically in the store
SWAllow(c) ==
    /\ algorithm = "sliding_window"
    /\ BagIn(c, inflight) /\ c.op = "Allow"
    /\ Take(c)
    /\ zset' = [zset EXCEPT ![c.id] = SWAfterAllow(c.id, c.now, limit)]
    /\ zttl' = [zttl EXCEPT ![c.id] = SWTtlAfterAllow(c.id, c.now, limit)]
    /\ LET r == AllowReturn(FALSE, SWAllowed(c.id, c.now, limit)) IN
       /\ log' = [log EXCEPT ![c.id] = Append(@,
                     [now |-> c.now, at |-> clock, allowed |-> r.allowed,
                      n |-> AdmittedIn(c.id, c.now), count |-> SWCount(c.id, c.now),
                      pre |-> zset[c.id]])]
       /\ last' = [Done("Allow", c.id, c.now) EXCEPT !.allowed = r.allowed, !.err = r.err]
    /\ UNCHANGED <<clock, ticks, cfg, lockVars, bucket, bttl, svcVars>>

\* SlidingWindow.GetRemaining: a pipeline of two commands, not a transaction
SWGetRemainingPurge(c) ==
    /\ algorithm = "sliding_window"
    /\ BagIn(c, inflight) /\ c.op = "GetRemaining" /\ c.phase = "zrem"
    /\ inflight' = (inflight (-) SetToBag({c})) (+) SetToBag({[c EXCEPT !.phase = "zcard"]})
    /\ zset' = [zset EXCEPT ![c.id] = Purge(@, c.now - WindowMs)]
    /\ zttl' = [zttl EXCEPT ![c.id] =
                  IF Purge(zset[c.id], c.now - WindowMs) = {} THEN NoTTL ELSE @]
    /\ UNCHANGED <<clock, ticks, cfg, lockVars, bucket, bttl, log, last, svcVars>>

SWGetRemainingCard(c) ==
    /\ algorithm = "sliding_window"
    /\ BagIn(c, inflight) /\ c.op = "GetRemaining" /\ c.phase = "zcard"
    /\ Take(c)
    /\ LET r == GetRemainingReturn(FALSE, SWRemaining(Cardinality(zset[c.id]), limit)) IN
       last' = [Done("GetRemaining", c.id, c.now) EXCEPT
                  !.remaining = r.remaining, !.err = r.err,
                  !.at = clock, !.n = AdmittedIn(c.id, c.now),
                  !.count = Cardinality(zset[c.id])]
    /\ UNCHANGED <<clock, ticks, cfg, lockVars, store, log, svcVars>>

\* LeakyBucket.Allow: the Lua script runs atomically in the store
LBAllow(c) ==
    /\ algorithm = "leaky_bucket"
    /\ BagIn(c, inflight) /\ c.op = "Allow"
    /\ ~LBScriptFails(c.id)
    /\ Take(c)
    /\ bucket' = [bucket EXCEPT ![c.id] = LBAfterAllow(c.id, c.now, limit)]
    /\ bttl' = [bttl EXCEPT ![c.id] = clock + ExpireSecs * MsPerSec]
    /\ LET r == AllowReturn(FALSE, LBAllowed(c.id, c.now, limit)) IN
       /\ log' = [log EXCEPT ![c.id] = Append(@,
                     [now |-> c.now, at |-> clock, allowed |-> r.allowed,
                      n |-> AdmittedIn(c.id, c.now), count |-> 0,
                      pre |-> bucket[c.id]])]
       /\ last' = [Done("Allow", c.id, c.now) EXCEPT !.allowed = r.allowed, !.err = r.err]
    /\ UNCHANGED <<clock, ticks, cfg, lockVars, zset, zttl, svcVars>>

\* LeakyBucket.Allow, the script aborts: nothing is written, Eval returns
\* the error and Allow returns (false, err)
LBAllowScriptError(c) ==
    /\ algorithm = "leaky_bucket"
    /\ BagIn(c, inflight) /\ c.op = "Allow"
    /\ LBScriptFails(c.id)
    /\ Take(c)
    /\ LET r == AllowReturn(TRUE, FALSE) IN
       last' = [Done("Allow", c.id, c.now) EXCEPT !.allowed = r.allowed, !.err = r.err]
    /\ UNCHANGED <<clock, ticks, cfg, lockVars, store, log, svcVars>>

\* (mutant) GetRemaining that stores the time of its reading
LBGetRemainingTouches(c) ==
    /\ algorithm = "leaky_bucket"
    /\ BagIn(c, inflight) /\ c.op = "GetRemaining" /\ c.phase = "hmget"
    /\ Take(c)
    /\ bucket' = [bucket EXCEPT ![c.id] = [@ EXCEPT !.has_last = TRUE, !.last_update = c.now]]
    /\ LET r == GetRemainingReturn(FALSE, LBRemaining(c.id, c.now, limit)) IN
       last' = [Done("GetRemaining", c.id, c.now) EXCEPT
                  !.remaining = r.remaining, !.err = r.err,
                  !.at = clock, !.n = AdmittedIn(c.id, c.now)]
    /\ UNCHANGED <<clock, ticks, cfg, lockVars, zset, zttl, bttl, log, svcVars>>

\* LeakyBucket.GetRemaining: one HMGET, the rest is computed by the caller
LBGetRemaining(c) ==
    /\ algorithm = "leaky_bucket"
    /\ BagIn(c, inflight) /\ c.op = "GetRemaining" /\ c.phase = "hmget"
    /\ Take(c)
    /\ LET r == GetRemainingReturn(FALSE, LBRemaining(c.id, c.now, limit)) IN
       last' = [Done("GetRemaining", c.id, c.now) EXCEPT
                  !.remaining = r.remaining, !.err = r.err,
                  !.at = clock, !.n = AdmittedIn(c.id, c.now)]
    /\ UNCHANGED <<clock, ticks, cfg, lockVars, store, log, svcVars>>

\* SlidingWindow.Reset: DEL rate_limit:sliding:<id>
SWAfterReset(id) == {}

\* (mutant) the reset zeroes the level and keeps the hash
LBAfterResetZeroLevel(id) == [bucket[id] EXCEPT !.has_level = TRUE, !.level = 0]

\* LeakyBucket.Reset: DEL rate_limit:leaky:<id>
LBAfterReset(id) == NoBucket

Reset(c) ==
    /\ BagIn(c, inflight) /\ c.op = "Reset"
    /\ Take(c)
    /\ IF algorithm = "sliding_window"
       THEN /\ zset' = [zset EXCEPT ![c.id] = SWAfterReset(c.id)]
            /\ zttl' = [zttl EXCEPT ![c.id] = IF SWAfterReset(c.id) = {} THEN NoTTL ELSE @]
            /\ UNCHANGED <<bucket, bttl>>
            /\ last' = [Done("Reset", c.id, 0) EXCEPT
                          !.err = ResetReturn(FALSE, zset[c.id] # {}),
                          !.count = IF zset[c.id] # {} THEN 1 ELSE 0]
       ELSE /\ bucket' = [bucket EXCEPT ![c.id] = LBAfterReset(c.id)]
            /\ bttl' = [bttl EXCEPT ![c.id] = IF LBAfterReset(c.id) = NoBucket THEN NoTTL ELSE @]
            /\ UNCHANGED <<zset, zttl>>
            /\ last' = [Done("Reset", c.id, 0) EXCEPT
                          !.err = ResetReturn(FALSE, bucket[c.id] # NoBucket),
                          !.count = IF bucket[c.id] # NoBucket THEN 1 ELSE 0]
    /\ log' = [log EXCEPT ![c.id] = <<>>]
    /\ UNCHANGED <<clock, ticks, cfg, lockVars, svcVars>>

\* The store call of an operation fails (network, timeout): nothing is
\* written, the caller gets (false, err), (0, err) or err
StoreError(c) ==
    /\ BagIn(c, inflight)
    /\ Take(c)
    /\ last' = [Done(c.op, c.id, c.now) EXCEPT
                  !.failed = TRUE,
                  !.allowed = AllowReturn(TRUE, FALSE).allowed,
                  !.remaining = GetRemainingReturn(TRUE, 0).remaining,
                  !.err = IF c.op = "Allow" THEN AllowReturn(TRUE, FALSE).err
                          ELSE IF c.op = "GetRemaining" THEN GetRemainingReturn(TRUE, 0).err
                          ELSE ResetReturn(TRUE, FALSE)]
    /\ UNCHANGED <<clock, ticks, cfg, lockVars, store, log, svcVars>>

\* Time passes; the store drops the keys whose expiry has been reached
Expired(ttl, now) == ttl # NoTTL /\ now >= ttl

Advance(d) ==
    /\ ticks' = ticks + 1
    /\ clock' = clock + d
    /\ zset' = [i \in Identities |-> IF Expired(zttl[i], clock + d) THEN {} ELSE zset[i]]
    /\ zttl' = [i \in Identities |-> IF Expired(zttl[i], clock + d) THEN NoTTL ELSE zttl[i]]
    /\ bucket' = [i \in Identities |-> IF Expired(bttl[i], clock + d) THEN NoBucket ELSE bucket[i]]
    /\ bttl' = [i \in Identities |-> IF Expired(bttl[i], clock + d) THEN NoTTL ELSE bttl[i]]
    /\ override' = [i \in Identities |-> IF Expired(ottl[i], clock + d) THEN NoValue ELSE override[i]]
    /\ ottl' = [i \in Identities |-> IF Expired(ottl[i], clock + d) THEN NoTTL ELSE ottl[i]]
    /\ UNCHANGED <<cfg, lockVars, limVars, enableLocalCache, userLimitsCache, cacheExpiry,
                   pc, frame, setDone, slast, served>>

Tick(d) ==
    /\ ticks < MaxTicks
    /\ Advance(d)

Next ==
    \/ \E id \in Ids : InvokeAllow(id)
    \/ \E id \in Ids : InvokeGetRemaining(id)
    \/ \E id \in Ids : InvokeReset(id)
    \/ \E c \in BagToSet(inflight) : SWAllow(c)
    \/ \E c \in BagToSet(inflight) : SWGetRemainingPurge(c)
    \/ \E c \in BagToSet(inflight) : SWGetRemainingCard(c)
    \/ \E c \in BagToSet(inflight) : LBAllow(c)
    \/ \E c \in BagToSet(inflight) : LBGetRemaining(c)
    \/ \E c \in BagToSet(inflight) : Reset(c)
    \/ \E c \in BagToSet(inflight) : StoreError(c)
    \/ \E d \in Steps : Tick(d)

\* One caller: a call is made when the previous one has returned.
Spec == Init /\ [][Next]_vars

\* -------------------------------------------------------- malformed records
\* Another client of the store writes a string that is not a number into a
\* field of rate_limit:leaky:<id>: HSET key field "x"
BucketFields == {"level", "last_update"}

CorruptBucket(id, field) ==
    /\ algorithm = "leaky_bucket"
    /\ bucket' = [bucket EXCEPT ![id] =
                     IF field = "level"
                     THEN [@ EXCEPT !.has_level = TRUE, !.level = 0, !.bad_level = TRUE]
                     ELSE [@ EXCEPT !.has_last = TRUE, !.last_update = 0, !.bad_last = TRUE]]
    /\ bucket'[id] # bucket[id]
    /\ UNCHANGED <<clock, ticks, cfg, lockVars, zset, zttl, bttl, limVars, svcVars>>

NextCorrupt ==
    \/ Next
    \/ \E id \in Ids, field \in BucketFields : CorruptBucket(id, field)
    \/ \E c \in BagToSet(inflight) : LBAllowScriptError(c)

SpecCorrupt == Init /\ [][NextCorrupt]_vars

\* ------------------------------------------------------- leaky bucket runs
\* One caller asks the leaky bucket millisecond after millisecond: the rate
\* of limit / window seconds per millisecond empties a bucket so fast that a
\* request is denied only within a millisecond or two of the admissions.
LeakTicks == MaxTicks + 1

InitLeak ==
    /\ Init
    /\ algorithm = "leaky_bucket"

LeakTick ==
    /\ ticks < LeakTicks
    /\ Advance(1)

NextLeak ==
    \/ \E id \in Ids : InvokeAllow(id)
    \/ \E id \in Ids : InvokeGetRemaining(id)
    \/ \E c \in BagToSet(inflight) : LBAllow(c)
    \/ \E c \in BagToSet(inflight) : LBGetRemaining(c)
    \/ LeakTick

SpecLeak == InitLeak /\ [][NextLeak]_vars

\* ------------------------------------------------- concurrent GetRemaining
\* Two goroutines call Allow and GetRemaining of the sliding window for one
\* identity: a call takes its timestamp when it is entered and its store
\* commands run later, in any order with those of the other call.
InitPeek ==
    /\ Init
    /\ algorithm = "sliding_window"

PeekAllow(id) ==
    /\ BagCardinality(inflight) < Cardinality(Procs)
    /\ Len(log[id]) + AllowsInFlight(id) < MaxCalls
    /\ inflight' = inflight (+) SetToBag({Call("Allow", id, clock, "eval")})
    /\ UNCHANGED <<clock, ticks, cfg, lockVars, store, log, last, svcVars>>

PeekGetRemaining(id) ==
    /\ BagCardinality(inflight) < Cardinality(Procs)
    /\ inflight' = inflight (+) SetToBag({Call("GetRemaining", id, clock, "zrem")})
    /\ UNCHANGED <<clock, ticks, cfg, lockVars, store, log, last, svcVars>>

NextPeek ==
    \/ \E id \in Ids : PeekAllow(id)
    \/ \E id \in Ids : PeekGetRemaining(id)
    \/ \E c \in BagToSet(inflight) : SWAllow(c)
    \/ \E c \in BagToSet(inflight) : SWGetRemainingPurge(c)
    \/ \E c \in BagToSet(inflight) : SWGetRemainingCard(c)
    \/ \E d \in Steps : Tick(d)

SpecPeek == InitPeek /\ [][NextPeek]_vars

\* ------------------------------------------------------------------- burst
\* 2 * limit callers enter Allow for one fresh identity before any of the
\* scripts has run; the store runs the scripts in any order.
BurstAllow(id) ==
    /\ log[id] = <<>>
    /\ BagCardinality(inflight) < 2 * limit
    /\ inflight' = inflight (+) SetToBag({Call("Allow", id, clock, "eval")})
    /\ UNCHANGED <<clock, ticks, cfg, lockVars, store, log, last, svcVars>>

NextBurst ==
    \/ \E id \in Ids : BurstAllow(id)
    \/ \E c \in BagToSet(inflight) : SWAllow(c)
    \/ \E c \in BagToSet(inflight) : LBAllow(c)
    \/ \E d \in Steps : Tick(d)

SpecBurst == Init /\ [][NextBurst]_vars

\* -------------------------------------------------------- service: actions
svcFrame == <<enableLocalCache, userLimitsCache, cacheExpiry, setDone>>
limiterVars == <<zset, zttl, bucket, bttl>>

\* Service.RateLimit: if err != nil { return false, err }; return allowed, nil
RateLimitReturn(r) == [allowed |-> IF r.err THEN FALSE ELSE r.allowed, err |-> r.err]

\* Service.SetUserLimit: if err != nil { return fmt.Errorf(...) }
SetUserLimitReturn(failed) == failed

Returned(f) ==
    [NoSvcCall EXCEPT !.op = f.op, !.id = f.id, !.v = f.v, !.hit = f.hit,
                      !.storeSeen = f.storeSeen, !.lookups = f.lookups,
                      !.rerr = f.rerr, !.live = f.live, !.seen = f.seen,
                      !.covered = f.covered, !.coverV = f.coverV,
                      !.inTtl = f.inTtl, !.untouched = f.untouched]

\* a goroutine that is free takes the next call
Begin(p) ==
    /\ pc[p] = "idle"
    /\ served < MaxCalls
    /\ served' = served + 1

\* RateLimit / GetRemaining call getUserLimit. With the cache enabled its
\* first step is the cache test under cacheMutex.RLock(): a hit returns the
\* cached limit, a miss goes on to the store. With the cache disabled it
\* goes to the store directly.
SvcStart(p, op, id) ==
    /\ Begin(p)
    /\ LET hit == enableLocalCache /\ CacheHit(id)
           live == /\ id \in DOMAIN userLimitsCache
                   /\ id \in DOMAIN cacheExpiry
                   /\ clock < cacheExpiry[id]
       IN
       /\ frame' = [frame EXCEPT ![p] =
                      [IdleFrame EXCEPT !.op = op, !.id = id, !.hit = hit,
                                        !.ul = IF hit THEN userLimitsCache[id] ELSE 0,
                                        !.live = live,
                                        !.seen = IF live THEN userLimitsCache[id] ELSE 0,
                                        !.covered = (setDone[id] # NoSet),
                                        !.coverV = setDone[id].v,
                                        !.inTtl = (clock < setDone[id].exp),
                                        !.untouched =
                                            \/ id \notin DOMAIN cacheExpiry
                                            \/ cacheExpiry[id] = setDone[id].exp]]
       /\ pc' = [pc EXCEPT ![p] = IF hit THEN "limiter" ELSE "get"]
    /\ slast' = NoSvcCall
    /\ UNCHANGED <<clock, ticks, cfg, lockVars, store, limVars, override, ottl, svcFrame>>

\* (mutant) the 0 of "no override" is cached like a value
GulGetCachesMiss(p) ==
    /\ pc[p] = "get"
    /\ LET id == frame[p].id
           reply == GetReply(override[id])
       IN  /\ frame' = [frame EXCEPT ![p] =
                          [@ EXCEPT !.lookups = @ + 1,
                                    !.storeSeen = reply,
                                    !.rerr = LookupError(reply),
                                    !.seen = ParseInt(override[id]).n,
                                    !.ul = IF reply = "value"
                                           THEN ParseInt(override[id]).n ELSE 0]]
           /\ pc' = [pc EXCEPT ![p] =
                       IF reply \in {"value", "nil"} /\ enableLocalCache
                       THEN "cache" ELSE "limiter"]
    /\ UNCHANGED <<clock, ticks, cfg, lockVars, store, limVars, override, ottl, svcFrame,
                   slast, served>>

\* (mutant) a lookup that finds no value is made a second time
GulGetRetry(p) ==
    /\ pc[p] = "get"
    /\ LET id == frame[p].id
           reply == GetReply(override[id])
       IN  /\ frame' = [frame EXCEPT ![p] =
                          [@ EXCEPT !.lookups = @ + 1,
                                    !.storeSeen = reply,
                                    !.rerr = LookupError(reply),
                                    !.seen = ParseInt(override[id]).n,
                                    !.ul = IF reply = "value"
                                           THEN ParseInt(override[id]).n ELSE 0]]
           /\ pc' = [pc EXCEPT ![p] =
                       IF reply = "nil" /\ frame[p].lookups = 0 THEN "get"
                       ELSE IF reply = "value" /\ enableLocalCache THEN "cache"
                       ELSE "limiter"]
    /\ UNCHANGED <<clock, ticks, cfg, lockVars, store, limVars, override, ottl, svcFrame,
                   slast, served>>

\* getUserLimit: redisClient.Get(ctx, key).Result(), then parseInt
GulGet(p) ==
    /\ pc[p] = "get"
    /\ LET id == frame[p].id
           reply == GetReply(override[id])
       IN  /\ frame' = [frame EXCEPT ![p] =
                          [@ EXCEPT !.lookups = @ + 1,
                                    !.storeSeen = reply,
                                    !.rerr = LookupError(reply),
                                    !.seen = ParseInt(override[id]).n,
                                    !.ul = IF reply = "value"
                                           THEN ParseInt(override[id]).n ELSE 0]]
           /\ pc' = [pc EXCEPT ![p] =
                       IF reply = "value" /\ enableLocalCache THEN "cache" ELSE "limiter"]
    /\ UNCHANGED <<clock, ticks, cfg, lockVars, store, limVars, override, ottl, svcFrame,
                   slast, served>>

\* getUserLimit: the GET does not go through: return 0, err
GulGetFail(p) ==
    /\ pc[p] = "get"
    /\ frame' = [frame EXCEPT ![p] =
                   [@ EXCEPT !.lookups = @ + 1, !.storeSeen = "error",
                             !.rerr = LookupError("error"), !.ul = 0]]
    /\ pc' = [pc EXCEPT ![p] = "limiter"]
    /\ UNCHANGED <<clock, ticks, cfg, lockVars, store, limVars, override, ottl, svcFrame,
                   slast, served>>

\* getUserLimit, under cacheMutex.Lock(): userLimitsCache[userID] = limit;
\* cacheExpiry[userID] = time.Now().Add(LocalCacheTTL seconds)
GulCache(p) ==
    /\ pc[p] = "cache"
    /\ userLimitsCache' = Put(userLimitsCache, frame[p].id, frame[p].ul)
    /\ cacheExpiry' = Put(cacheExpiry, frame[p].id, clock + CacheTtlMs)
    /\ pc' = [pc EXCEPT ![p] = "limiter"]
    /\ UNCHANGED <<clock, ticks, cfg, lockVars, store, limVars, override, ottl,
                   enableLocalCache, frame, setDone, slast, served>>

\* RateLimit after getUserLimit: the fallback rules, then limiter.Allow
SvcAllow(p) ==
    /\ pc[p] = "limiter" /\ frame[p].op = "RateLimit"
    /\ LET id == frame[p].id
           lim == EffectiveLimit(frame[p].ul, frame[p].rerr, limit)
           decision == IF algorithm = "sliding_window"
                       THEN SWAllowed(id, clock, lim) ELSE LBAllowed(id, clock, lim)
           r == RateLimitReturn(AllowReturn(FALSE, decision))
       IN  /\ IF algorithm = "sliding_window"
              THEN /\ zset' = [zset EXCEPT ![id] = SWAfterAllow(id, clock, lim)]
                   /\ zttl' = [zttl EXCEPT ![id] = SWTtlAfterAllow(id, clock, lim)]
                   /\ UNCHANGED <<bucket, bttl>>
              ELSE /\ bucket' = [bucket EXCEPT ![id] = LBAfterAllow(id, clock, lim)]
                   /\ bttl' = [bttl EXCEPT ![id] = clock + ExpireSecs * MsPerSec]
                   /\ UNCHANGED <<zset, zttl>>
           /\ slast' = [Returned(frame[p]) EXCEPT
                          !.lim = lim, !.decision = decision,
                          !.allowed = r.allowed, !.err = r.err]
    /\ pc' = [pc EXCEPT ![p] = "idle"]
    /\ frame' = [frame EXCEPT ![p] = IdleFrame]
    /\ UNCHANGED <<clock, ticks, cfg, lockVars, limVars, override, ottl, svcFrame, served>>

\* GetRemaining after getUserLimit: return limiter.GetRemaining(...)
SvcGetRemaining(p) ==
    /\ pc[p] = "limiter" /\ frame[p].op = "GetRemaining"
    /\ LET id == frame[p].id
           lim == EffectiveLimit(frame[p].ul, frame[p].rerr, limit)
           left == Purge(zset[id], clock - WindowMs)
           r == GetRemainingReturn(FALSE,
                    IF algorithm = "sliding_window"
                    THEN SWRemaining(Cardinality(left), lim)
                    ELSE LBRemaining(id, clock, lim))
       IN  /\ IF algorithm = "sliding_window"
              THEN /\ zset' = [zset EXCEPT ![id] = left]
                   /\ zttl' = [zttl EXCEPT ![id] = IF left = {} THEN NoTTL ELSE @]
              ELSE UNCHANGED <<zset, zttl>>
           /\ slast' = [Returned(frame[p]) EXCEPT
                          !.lim = lim, !.remaining = r.remaining, !.err = r.err]
    /\ pc' = [pc EXCEPT ![p] = "idle"]
    /\ frame' = [frame EXCEPT ![p] = IdleFrame]
    /\ UNCHANGED <<clock, ticks, cfg, lockVars, bucket, bttl, limVars, override, ottl,
                   svcFrame, served>>

\* the limiter's store call does not go through
SvcLimiterFail(p) ==
    /\ pc[p] = "limiter"
    /\ LET lim == EffectiveLimit(frame[p].ul, frame[p].rerr, limit)
           a == RateLimitReturn(AllowReturn(TRUE, FALSE))
           g == GetRemainingReturn(TRUE, 0)
       IN  slast' = [Returned(frame[p]) EXCEPT
                       !.lim = lim, !.failed = TRUE,
                       !.allowed = a.allowed, !.remaining = g.remaining,
                       !.err = IF frame[p].op = "RateLimit" THEN a.err ELSE g.err]
    /\ pc' = [pc EXCEPT ![p] = "idle"]
    /\ frame' = [frame EXCEPT ![p] = IdleFrame]
    /\ UNCHANGED <<clock, ticks, cfg, lockVars, store, limVars, override, ottl, svcFrame, served>>

\* (mutant) the reset flushes the limiter records of every identity
SvcResetAll(p, id, failed) ==
    /\ Begin(p)
    /\ IF failed THEN UNCHANGED limiterVars
       ELSE IF algorithm = "sliding_window"
       THEN /\ zset' = [i \in Identities |-> SWAfterReset(i)]
            /\ zttl' = [i \in Identities |-> NoTTL]
            /\ UNCHANGED <<bucket, bttl>>
       ELSE /\ bucket' = [i \in Identities |-> LBAfterReset(i)]
            /\ bttl' = [i \in Identities |-> NoTTL]
            /\ UNCHANGED <<zset, zttl>>
    /\ slast' = [NoSvcCall EXCEPT !.op = "Reset", !.id = id, !.failed = failed,
                                  !.err = ResetReturn(failed, ~Fresh(id))]
    /\ UNCHANGED <<clock, ticks, cfg, lockVars, limVars, override, ottl, svcFrame, pc, frame>>

\* (mutant) the reset clears the override of the identity as well
SvcResetWithOverride(p, id, failed) ==
    /\ Begin(p)
    /\ IF failed THEN UNCHANGED limiterVars
       ELSE IF algorithm = "sliding_window"
       THEN /\ zset' = [zset EXCEPT ![id] = SWAfterReset(id)]
            /\ zttl' = [zttl EXCEPT ![id] = NoTTL]
            /\ UNCHANGED <<bucket, bttl>>
       ELSE /\ bucket' = [bucket EXCEPT ![id] = LBAfterReset(id)]
            /\ bttl' = [bttl EXCEPT ![id] = NoTTL]
            /\ UNCHANGED <<zset, zttl>>
    /\ override' = [override EXCEPT ![id] = NoValue]
    /\ ottl' = [ottl EXCEPT ![id] = NoTTL]
    /\ slast' = [NoSvcCall EXCEPT !.op = "Reset", !.id = id, !.failed = failed,
                                  !.err = ResetReturn(failed, ~Fresh(id))]
    /\ UNCHANGED <<clock, ticks, cfg, lockVars, limVars, svcFrame, pc, frame>>

\* (mutant) the reset deletes the records of both algorithms
SvcResetBoth(p, id, failed) ==
    /\ Begin(p)
    /\ IF failed THEN UNCHANGED limiterVars
       ELSE /\ zset' = [zset EXCEPT ![id] = SWAfterReset(id)]
            /\ zttl' = [zttl EXCEPT ![id] = NoTTL]
            /\ bucket' = [bucket EXCEPT ![id] = LBAfterReset(id)]
            /\ bttl' = [bttl EXCEPT ![id] = NoTTL]
    /\ slast' = [NoSvcCall EXCEPT !.op = "Reset", !.id = id, !.failed = failed,
                                  !.err = ResetReturn(failed, ~Fresh(id))]
    /\ UNCHANGED <<clock, ticks, cfg, lockVars, limVars, override, ottl, svcFrame, pc, frame>>

\* Service.Reset: return limiter.Reset(ctx, userID)
SvcReset(p, id, failed) ==
    /\ Begin(p)
    /\ IF failed THEN UNCHANGED limiterVars
       ELSE IF algorithm = "sliding_window"
       THEN /\ zset' = [zset EXCEPT ![id] = SWAfterReset(id)]
            /\ zttl' = [zttl EXCEPT ![id] = NoTTL]
            /\ UNCHANGED <<bucket, bttl>>
       ELSE /\ bucket' = [bucket EXCEPT ![id] = LBAfterReset(id)]
            /\ bttl' = [bttl EXCEPT ![id] = NoTTL]
            /\ UNCHANGED <<zset, zttl>>
    /\ slast' = [NoSvcCall EXCEPT !.op = "Reset", !.id = id, !.failed = failed,
                                  !.err = ResetReturn(failed, ~Fresh(id))]
    /\ UNCHANGED <<clock, ticks, cfg, lockVars, limVars, override, ottl, svcFrame, pc, frame>>

\* SetUserLimit: redisClient.Set(ctx, key, limit, LocalCacheTTL seconds);
\* with the cache disabled the call returns here
SetStore(p, id, v) ==
    /\ Begin(p)
    /\ override' = [override EXCEPT ![id] = FormatInt(v)]
    /\ ottl' = [ottl EXCEPT ![id] = clock + CacheTtlMs]
    /\ IF enableLocalCache
       THEN /\ pc' = [pc EXCEPT ![p] = "setcache"]
            /\ frame' = [frame EXCEPT ![p] =
                           [IdleFrame EXCEPT !.op = "SetUserLimit", !.id = id, !.v = v]]
            /\ slast' = NoSvcCall
            /\ UNCHANGED setDone
       ELSE /\ setDone' = [setDone EXCEPT ![id] = [v |-> v, exp |-> 0]]
            /\ slast' = [NoSvcCall EXCEPT !.op = "SetUserLimit", !.id = id, !.v = v,
                                          !.err = SetUserLimitReturn(FALSE)]
            /\ UNCHANGED <<pc, frame>>
    /\ UNCHANGED <<clock, ticks, cfg, lockVars, store, limVars, enableLocalCache,
                   userLimitsCache, cacheExpiry>>

\* (mutant) the cache is updated although the SET did not go through
SetStoreFailCaches(p, id, v) ==
    /\ Begin(p)
    /\ userLimitsCache' = Put(userLimitsCache, id, v)
    /\ cacheExpiry' = Put(cacheExpiry, id, clock + CacheTtlMs)
    /\ slast' = [NoSvcCall EXCEPT !.op = "SetUserLimit", !.id = id, !.v = v,
                                  !.failed = TRUE, !.err = SetUserLimitReturn(TRUE)]
    /\ UNCHANGED <<clock, ticks, cfg, lockVars, store, limVars, override, ottl,
                   enableLocalCache, setDone, pc, frame>>

\* SetUserLimit: the SET does not go through; the cache is not touched
SetStoreFail(p, id, v) ==
    /\ Begin(p)
    /\ slast' = [NoSvcCall EXCEPT !.op = "SetUserLimit", !.id = id, !.v = v,
                                  !.failed = TRUE, !.err = SetUserLimitReturn(TRUE)]
    /\ UNCHANGED <<clock, ticks, cfg, lockVars, store, limVars, override, ottl, svcFrame, pc, frame>>

\* SetUserLimit, under cacheMutex.Lock(): userLimitsCache[userID] = limit;
\* cacheExpiry[userID] = time.Now().Add(LocalCacheTTL seconds); return nil
SetCache(p) ==
    /\ pc[p] = "setcache"
    /\ userLimitsCache' = Put(userLimitsCache, frame[p].id, frame[p].v)
    /\ cacheExpiry' = Put(cacheExpiry, frame[p].id, clock + CacheTtlMs)
    /\ setDone' = [setDone EXCEPT ![frame[p].id] =
                     [v |-> frame[p].v, exp |-> clock + CacheTtlMs]]
    /\ slast' = [NoSvcCall EXCEPT !.op = "SetUserLimit", !.id = frame[p].id,
                                  !.v = frame[p].v, !.err = SetUserLimitReturn(FALSE)]
    /\ pc' = [pc EXCEPT ![p] = "idle"]
    /\ frame' = [frame EXCEPT ![p] = IdleFrame]
    /\ UNCHANGED <<clock, ticks, cfg, lockVars, store, limVars, override, ottl,
                   enableLocalCache, served>>

\* (mutant) a cleanup that empties the cache
CleanupCacheAll ==
    /\ enableLocalCache
    /\ DOMAIN cacheExpiry # {}
    /\ userLimitsCache' = EmptyMap
    /\ cacheExpiry' = EmptyMap
    /\ UNCHANGED <<clock, ticks, cfg, lockVars, store, limVars, override, ottl,
                   enableLocalCache, pc, frame, setDone, slast, served>>

\* cleanupCache, one firing of the ticker: under cacheMutex.Lock(), every
\* entry with now.After(expiry) is deleted from both maps
CleanupCache ==
    /\ enableLocalCache
    /\ LET gone == {i \in DOMAIN cacheExpiry : clock > cacheExpiry[i]} IN
       /\ gone # {}
       /\ userLimitsCache' = Delete(userLimitsCache, gone)
       /\ cacheExpiry' = Delete(cacheExpiry, gone)
    /\ UNCHANGED <<clock, ticks, cfg, lockVars, store, limVars, override, ottl,
                   enableLocalCache, pc, frame, setDone, slast, served>>

\* Another client of the store writes rate_limit:config:<id>: another
\* instance's SetUserLimit, or a value that is not a number
ForeignSet(id, val) ==
    /\ served < MaxCalls
    /\ served' = served + 1
    /\ override' = [override EXCEPT ![id] = val]
    /\ ottl' = [ottl EXCEPT ![id] = clock + CacheTtlMs]
    /\ UNCHANGED <<clock, ticks, cfg, lockVars, store, limVars, svcFrame, pc, frame, slast>>

\* Time passes during the service runs, one clock advance fewer than in the
\* limiter runs
SvcTick(d) ==
    /\ ticks < MaxTicks - 1
    /\ Tick(d)

NextSvc ==
    \/ \E p \in Procs, id \in Ids : SvcStart(p, "RateLimit", id)
    \/ \E p \in Procs, id \in Ids : SvcStart(p, "GetRemaining", id)
    \/ \E p \in Procs : GulGet(p)
    \/ \E p \in Procs : GulGetFail(p)
    \/ \E p \in Procs : GulCache(p)
    \/ \E p \in Procs : SvcAllow(p)
    \/ \E p \in Procs : SvcGetRemaining(p)
    \/ \E p \in Procs : SvcLimiterFail(p)
    \/ \E p \in Procs, id \in Ids, failed \in BOOLEAN : SvcReset(p, id, failed)
    \/ \E p \in Procs, id \in Ids, v \in OverrideValues : SetStore(p, id, v)
    \/ \E p \in Procs, id \in Ids, v \in OverrideValues : SetStoreFail(p, id, v)
    \/ \E p \in Procs : SetCache(p)
    \/ CleanupCache
    \/ \E id \in Ids, val \in ForeignValues : ForeignSet(id, val)
    \/ \E d \in SvcSteps : SvcTick(d)

\* Two goroutines serve requests on one instance of the Service.
SpecSvc == InitSvc /\ [][NextSvc]_vars

\* ------------------------------------------------------ service: round trip
\* One goroutine, the cache disabled, nobody else writing the store: every
\* getUserLimit goes to the store and finds what SetUserLimit left there.
RoundValues == (0 - MaxValue)..MaxValue

NextRound ==
    \/ \E id \in Ids, v \in RoundValues : SetStore("g1", id, v)
    \/ \E id \in Ids : SvcStart("g1", "RateLimit", id)
    \/ GulGet("g1")
    \/ SvcAllow("g1")
    \/ \E d \in SvcSteps : SvcTick(d)

SpecRound == Init /\ [][NextRound]_vars

\* ----------------------------------------------------- service: staleness
\* The cache enabled, two goroutines of one instance reading and setting
\* overrides, and a clock that also advances by a couple of milliseconds, the
\* time a goroutine can spend between two statements.
StaleSteps == {2, CacheTtlMs - 1}

InitStale ==
    /\ InitCommon
    /\ enableLocalCache = TRUE

StaleTick(d) ==
    /\ ticks < MaxTicks
    /\ Tick(d)

NextStale ==
    \/ \E p \in Procs, id \in Ids : SvcStart(p, "RateLimit", id)
    \/ \E p \in Procs : GulGet(p)
    \/ \E p \in Procs : GulCache(p)
    \/ \E p \in Procs : SvcAllow(p)
    \/ \E p \in Procs, id \in Ids, v \in OverrideValues : SetStore(p, id, v)
    \/ \E p \in Procs : SetCache(p)
    \/ \E d \in StaleSteps : StaleTick(d)

SpecStale == InitStale /\ [][NextStale]_vars

\* ------------------------------------------------ service: two instances
\* SetUserLimit runs on another instance of the Service: this instance sees
\* the store key written with its TTL; the other instance's cache is its own.
PeerSet(id, v) ==
    /\ served < MaxCalls
    /\ served' = served + 1
    /\ override' = [override EXCEPT ![id] = FormatInt(v)]
    /\ ottl' = [ottl EXCEPT ![id] = clock + CacheTtlMs]
    /\ setDone' = [setDone EXCEPT ![id] = [v |-> v, exp |-> clock + CacheTtlMs]]
    /\ UNCHANGED <<clock, ticks, cfg, lockVars, store, limVars, enableLocalCache,
                   userLimitsCache, cacheExpiry, pc, frame, slast>>

NextTtl ==
    \/ \E id \in Ids : SvcStart("g1", "RateLimit", id)
    \/ GulGet("g1")
    \/ GulCache("g1")
    \/ SvcAllow("g1")
    \/ \E id \in Ids, v \in OverrideValues : PeerSet(id, v)
    \/ \E d \in StaleSteps : StaleTick(d)

\* One goroutine of this instance serves requests, with the cache enabled,
\* while overrides are set on another instance.
SpecTtl == InitStale /\ [][NextTtl]_vars

\* ------------------------------------------------- service: the algorithm
\* config.Algorithm is a string; NewService takes whatever it is given, and
\* the Service compares it with "sliding_window" only.
AlgorithmValues == Algorithms \cup {"token_bucket"}

\* Instances configured with either algorithm share the store: identity a
\* has a request recorded at time 0 under both kinds of key.
PeerZset == {0}
PeerBucket == [has_level |-> TRUE, level |-> WindowSize, has_last |-> TRUE,
               last_update |-> 0, bad_level |-> FALSE, bad_last |-> FALSE]

InitAlg ==
    /\ clock = 0
    /\ ticks = 0
    /\ algorithm \in AlgorithmValues
    /\ limit \in Limits
    /\ zset = [i \in Identities |-> IF i \in Ids THEN PeerZset ELSE {}]
    /\ zttl = [i \in Identities |-> IF i \in Ids THEN ExpireSecs * MsPerSec ELSE NoTTL]
    /\ bucket = [i \in Identities |-> IF i \in Ids THEN PeerBucket ELSE NoBucket]
    /\ bttl = [i \in Identities |-> IF i \in Ids THEN ExpireSecs * MsPerSec ELSE NoTTL]
    /\ inflight = EmptyBag
    /\ log = [i \in Identities |-> <<>>]
    /\ last = NoCall
    /\ override = [i \in Identities |-> NoValue]
    /\ ottl = [i \in Identities |-> NoTTL]
    /\ enableLocalCache = FALSE
    /\ userLimitsCache = EmptyMap
    /\ cacheExpiry = EmptyMap
    /\ pc = [p \in Procs |-> "idle"]
    /\ frame = [p \in Procs |-> IdleFrame]
    /\ setDone = [i \in Identities |-> NoSet]
    /\ slast = NoSvcCall
    /\ served = 0
    /\ cacheMutex = Unlocked
    /\ written = [i \in Identities |-> NoSet]
    /\ cleanupPc = CleanupWaits
    /\ mw = MwIdle

NextAlg ==
    \/ \E id \in Ids : SvcStart("g1", "RateLimit", id)
    \/ \E id \in Ids : SvcStart("g1", "GetRemaining", id)
    \/ GulGet("g1")
    \/ SvcAllow("g1")
    \/ SvcGetRemaining("g1")
    \/ \E id \in Ids : SvcReset("g1", id, FALSE)
    \/ \E d \in Steps : Tick(d)

\* One goroutine of an instance whose Algorithm is any string.
SpecAlg == InitAlg /\ [][NextAlg]_vars

\* ---------------------------------------------------- service: identities
\* One goroutine serves two identities.
NextIso ==
    \/ \E id \in Identities : SvcStart("g1", "RateLimit", id)
    \/ \E id \in Identities : SvcStart("g1", "GetRemaining", id)
    \/ GulGet("g1")
    \/ SvcAllow("g1")
    \/ SvcGetRemaining("g1")
    \/ \E id \in Identities : SvcReset("g1", id, FALSE)
    \/ \E id \in Identities, v \in OverrideValues : SetStore("g1", id, v)
    \/ SetCache("g1")
    \/ \E d \in SvcSteps : SvcTick(d)

SpecIso == InitSvc /\ [][NextIso]_vars

\* the keys of the three kinds of record
Kinds == {"sliding", "leaky", "config"}

\* (mutant) one prefix for every kind of record
KeySharedPrefix(kind, id) == "rate_limit:" \o id

\* sw.keyPrefix + userID, lb.keyPrefix + userID,
\* fmt.Sprintf("rate_limit:config:%s", userID)
Key(kind, id) ==
    IF kind = "sliding" THEN "rate_limit:sliding:" \o id
    ELSE IF kind = "leaky" THEN "rate_limit:leaky:" \o id
    ELSE "rate_limit:config:" \o id

\* identities as callers may send them, some made to look like keys
KeyIds == Identities \cup {"", "leaky:a", "rate_limit:config:a"}

\* ------------------------------------------------------ service: cleanup
\* The cache enabled and the ticker of cleanupCache firing again and again:
\* a firing that has entries to delete is not postponed for ever.
NextClean ==
    \/ \E p \in Procs, id \in Ids : SvcStart(p, "RateLimit", id)
    \/ \E p \in Procs : GulGet(p)
    \/ \E p \in Procs : GulCache(p)
    \/ \E p \in Procs : SvcAllow(p)
    \/ \E p \in Procs, id \in Ids, v \in OverrideValues : SetStore(p, id, v)
    \/ \E p \in Procs : SetCache(p)
    \/ CleanupCache
    \/ \E d \in SvcSteps : SvcTick(d)

SpecClean == InitStale /\ [][NextClean]_vars /\ WF_vars(CleanupCache)

\* ------------------------------------------------- service: cacheMutex
\* The critical sections of the cache statement by statement: the two maps
\* are read and written one after the other while cacheMutex is held.

\* (mutant) RLock that does not wait for the writer
CanRLockAnytime(m) == TRUE

\* sync.RWMutex.RLock proceeds when no writer holds the mutex
CanRLock(m) == m.writer = {}

\* sync.RWMutex.Lock proceeds when nobody holds the mutex
CanLock(m) == m.writer = {} /\ m.readers = {}

lockRest == <<ticks, cfg, store, limVars, enableLocalCache, override, ottl,
              setDone, slast, served, mw>>

\* getUserLimit: s.cacheMutex.RLock()
CacheRLock(p, id) ==
    /\ enableLocalCache
    /\ pc[p] = "idle"
    /\ CanRLock(cacheMutex)
    /\ cacheMutex' = [cacheMutex EXCEPT !.readers = @ \cup {p}]
    /\ pc' = [pc EXCEPT ![p] = "rvalue"]
    /\ frame' = [frame EXCEPT ![p] = [IdleFrame EXCEPT !.op = "read", !.id = id]]
    /\ UNCHANGED <<clock, lockRest, userLimitsCache, cacheExpiry, written, cleanupPc>>

\* limit, exists := s.userLimitsCache[userID]
CacheReadValue(p) ==
    /\ pc[p] = "rvalue"
    /\ LET id == frame[p].id
           exists == id \in DOMAIN userLimitsCache IN
       /\ frame' = [frame EXCEPT ![p] = [@ EXCEPT !.seen = IF exists THEN userLimitsCache[id] ELSE 0]]
       /\ pc' = [pc EXCEPT ![p] = IF exists THEN "rexpiry" ELSE "runlock"]
    /\ UNCHANGED <<clock, lockRest, userLimitsCache, cacheExpiry, lockVars>>

\* expiry, ok := s.cacheExpiry[userID]; ok && time.Now().Before(expiry)
CacheReadExpiry(p) ==
    /\ pc[p] = "rexpiry"
    /\ LET id == frame[p].id
           ok == id \in DOMAIN cacheExpiry
           live == ok /\ clock < cacheExpiry[id] IN
       frame' = [frame EXCEPT ![p] = [@ EXCEPT !.live = live, !.hit = live,
                                               !.ul = IF live THEN frame[p].seen ELSE 0]]
    /\ pc' = [pc EXCEPT ![p] = "runlock"]
    /\ UNCHANGED <<clock, lockRest, userLimitsCache, cacheExpiry, lockVars>>

\* s.cacheMutex.RUnlock()
CacheRUnlock(p) ==
    /\ pc[p] = "runlock"
    /\ cacheMutex' = [cacheMutex EXCEPT !.readers = @ \ {p}]
    /\ pc' = [pc EXCEPT ![p] = "idle"]
    /\ frame' = [frame EXCEPT ![p] = IdleFrame]
    /\ UNCHANGED <<clock, lockRest, userLimitsCache, cacheExpiry, written, cleanupPc>>

\* the cache update of getUserLimit and of SetUserLimit:
\* s.cacheMutex.Lock()
CacheLock(p, id, v) ==
    /\ enableLocalCache
    /\ pc[p] = "idle"
    /\ CanLock(cacheMutex)
    /\ cacheMutex' = [cacheMutex EXCEPT !.writer = @ \cup {p}]
    /\ pc' = [pc EXCEPT ![p] = "wvalue"]
    /\ frame' = [frame EXCEPT ![p] = [IdleFrame EXCEPT !.op = "write", !.id = id, !.v = v]]
    /\ UNCHANGED <<clock, lockRest, userLimitsCache, cacheExpiry, written, cleanupPc>>

\* s.userLimitsCache[userID] = limit
CacheWriteValue(p) ==
    /\ pc[p] = "wvalue"
    /\ userLimitsCache' = Put(userLimitsCache, frame[p].id, frame[p].v)
    /\ pc' = [pc EXCEPT ![p] = "wexpiry"]
    /\ UNCHANGED <<clock, lockRest, cacheExpiry, frame, lockVars>>

\* (mutant) the expiry of the entry is not stored
CacheWriteExpirySkipped(p) ==
    /\ pc[p] = "wexpiry"
    /\ written' = [written EXCEPT ![frame[p].id] =
                      [v |-> frame[p].v, exp |-> clock + CacheTtlMs]]
    /\ pc' = [pc EXCEPT ![p] = "wunlock"]
    /\ UNCHANGED <<clock, lockRest, userLimitsCache, cacheExpiry, frame, cacheMutex, cleanupPc>>

\* s.cacheExpiry[userID] = time.Now().Add(LocalCacheTTL seconds)
CacheWriteExpiry(p) ==
    /\ pc[p] = "wexpiry"
    /\ cacheExpiry' = Put(cacheExpiry, frame[p].id, clock + CacheTtlMs)
    /\ written' = [written EXCEPT ![frame[p].id] =
                      [v |-> frame[p].v, exp |-> clock + CacheTtlMs]]
    /\ pc' = [pc EXCEPT ![p] = "wunlock"]
    /\ UNCHANGED <<clock, lockRest, userLimitsCache, frame, cacheMutex, cleanupPc>>

\* s.cacheMutex.Unlock()
CacheUnlock(p) ==
    /\ pc[p] = "wunlock"
    /\ cacheMutex' = [cacheMutex EXCEPT !.writer = @ \ {p}]
    /\ pc' = [pc EXCEPT ![p] = "idle"]
    /\ frame' = [frame EXCEPT ![p] = IdleFrame]
    /\ UNCHANGED <<clock, lockRest, userLimitsCache, cacheExpiry, written, cleanupPc>>

\* cleanupCache, the ticker fired: s.cacheMutex.Lock(); now := time.Now()
CleanupLock ==
    /\ enableLocalCache
    /\ cleanupPc.at = "wait"
    /\ CanLock(cacheMutex)
    /\ cacheMutex' = [cacheMutex EXCEPT !.writer = @ \cup {"cleanup"}]
    /\ cleanupPc' = [at |-> "range", now |-> clock, id |-> "nil"]
    /\ UNCHANGED <<clock, lockRest, userLimitsCache, cacheExpiry, pc, frame, written>>

\* for userID, expiry := range s.cacheExpiry: if now.After(expiry),
\* delete(s.userLimitsCache, userID)
CleanupDeleteValue(id) ==
    /\ cleanupPc.at = "range"
    /\ id \in DOMAIN cacheExpiry
    /\ cleanupPc.now > cacheExpiry[id]
    /\ userLimitsCache' = Delete(userLimitsCache, {id})
    /\ cleanupPc' = [cleanupPc EXCEPT !.at = "expiry", !.id = id]
    /\ UNCHANGED <<clock, lockRest, cacheExpiry, pc, frame, cacheMutex, written>>

\* delete(s.cacheExpiry, userID)
CleanupDeleteExpiry ==
    /\ cleanupPc.at = "expiry"
    /\ cacheExpiry' = Delete(cacheExpiry, {cleanupPc.id})
    /\ written' = [written EXCEPT ![cleanupPc.id] = NoSet]
    /\ cleanupPc' = [cleanupPc EXCEPT !.at = "range", !.id = "nil"]
    /\ UNCHANGED <<clock, lockRest, userLimitsCache, pc, frame, cacheMutex>>

\* the range is over: s.cacheMutex.Unlock()
CleanupUnlock ==
    /\ cleanupPc.at = "range"
    /\ \A id \in DOMAIN cacheExpiry : ~(cleanupPc.now > cacheExpiry[id])
    /\ cacheMutex' = [cacheMutex EXCEPT !.writer = @ \ {"cleanup"}]
    /\ cleanupPc' = CleanupWaits
    /\ UNCHANGED <<clock, lockRest, userLimitsCache, cacheExpiry, pc, frame, written>>

NextLock ==
    \/ \E p \in Procs, id \in Ids : CacheRLock(p, id)
    \/ \E p \in Procs : CacheReadValue(p)
    \/ \E p \in Procs : CacheReadExpiry(p)
    \/ \E p \in Procs : CacheRUnlock(p)
    \/ \E p \in Procs, id \in Ids, v \in OverrideValues : CacheLock(p, id, v)
    \/ \E p \in Procs : CacheWriteValue(p)
    \/ \E p \in Procs : CacheWriteExpiry(p)
    \/ \E p \in Procs : CacheUnlock(p)
    \/ CleanupLock
    \/ \E id \in Ids : CleanupDeleteValue(id)
    \/ CleanupDeleteExpiry
    \/ CleanupUnlock
    \/ \E d \in SvcSteps : StaleTick(d)

SpecLock == InitStale /\ [][NextLock]_vars

\* ------------------------------------------- service: calls and the mutex
\* RateLimit, GetRemaining and SetUserLimit statement by statement, the
\* store calls between the critical sections included, next to cleanupCache.
\* A goroutine stays before a store call for as long as the store takes.

\* getUserLimit: s.cacheMutex.RLock()
GulRLock(p, op, id) ==
    /\ Begin(p)
    /\ enableLocalCache
    /\ CanRLock(cacheMutex)
    /\ cacheMutex' = [cacheMutex EXCEPT !.readers = @ \cup {p}]
    /\ pc' = [pc EXCEPT ![p] = "rvalue"]
    /\ frame' = [frame EXCEPT ![p] = [IdleFrame EXCEPT !.op = op, !.id = id]]
    /\ slast' = NoSvcCall
    /\ UNCHANGED <<clock, ticks, cfg, store, limVars, enableLocalCache, override, ottl,
                   setDone, userLimitsCache, cacheExpiry, written, cleanupPc, mw>>

\* (mutant) on a miss the read lock is kept while the store is asked
GulRUnlockLate(p) ==
    /\ pc[p] = "runlock"
    /\ cacheMutex' = IF frame[p].hit
                     THEN [cacheMutex EXCEPT !.readers = @ \ {p}] ELSE cacheMutex
    /\ pc' = [pc EXCEPT ![p] = IF frame[p].hit THEN "limiter" ELSE "get"]
    /\ UNCHANGED <<clock, lockRest, userLimitsCache, cacheExpiry, written, cleanupPc, frame>>

\* getUserLimit: s.cacheMutex.RUnlock(), on the hit path and on the miss
\* path; a hit returns the limit, a miss goes on to the store
GulRUnlock(p) ==
    /\ pc[p] = "runlock"
    /\ cacheMutex' = [cacheMutex EXCEPT !.readers = @ \ {p}]
    /\ pc' = [pc EXCEPT ![p] = IF frame[p].hit THEN "limiter" ELSE "get"]
    /\ UNCHANGED <<clock, lockRest, userLimitsCache, cacheExpiry, written, cleanupPc, frame>>

\* getUserLimit after the store answered with a value: s.cacheMutex.Lock()
GulLock(p) ==
    /\ pc[p] = "cache"
    /\ CanLock(cacheMutex)
    /\ cacheMutex' = [cacheMutex EXCEPT !.writer = @ \cup {p}]
    /\ pc' = [pc EXCEPT ![p] = "wvalue"]
    /\ frame' = [frame EXCEPT ![p] = [@ EXCEPT !.v = frame[p].ul]]
    /\ UNCHANGED <<clock, lockRest, userLimitsCache, cacheExpiry, written, cleanupPc>>

\* getUserLimit: s.cacheMutex.Unlock(); return limit, nil
GulUnlock(p) ==
    /\ pc[p] = "wunlock" /\ frame[p].op # "SetUserLimit"
    /\ cacheMutex' = [cacheMutex EXCEPT !.writer = @ \ {p}]
    /\ pc' = [pc EXCEPT ![p] = "limiter"]
    /\ UNCHANGED <<clock, lockRest, userLimitsCache, cacheExpiry, written, cleanupPc, frame>>

\* SetUserLimit after the SET returned: s.cacheMutex.Lock()
SetLock(p) ==
    /\ pc[p] = "setcache"
    /\ CanLock(cacheMutex)
    /\ cacheMutex' = [cacheMutex EXCEPT !.writer = @ \cup {p}]
    /\ pc' = [pc EXCEPT ![p] = "wvalue"]
    /\ UNCHANGED <<clock, lockRest, userLimitsCache, cacheExpiry, written, cleanupPc, frame>>

\* SetUserLimit: s.cacheMutex.Unlock(); return nil
SetUnlock(p) ==
    /\ pc[p] = "wunlock" /\ frame[p].op = "SetUserLimit"
    /\ cacheMutex' = [cacheMutex EXCEPT !.writer = @ \ {p}]
    /\ setDone' = [setDone EXCEPT ![frame[p].id] = written[frame[p].id]]
    /\ slast' = [NoSvcCall EXCEPT !.op = "SetUserLimit", !.id = frame[p].id,
                                  !.v = frame[p].v, !.err = SetUserLimitReturn(FALSE)]
    /\ pc' = [pc EXCEPT ![p] = "idle"]
    /\ frame' = [frame EXCEPT ![p] = IdleFrame]
    /\ UNCHANGED <<clock, ticks, cfg, store, limVars, enableLocalCache, override, ottl,
                   served, userLimitsCache, cacheExpiry, written, cleanupPc, mw>>

NextHold ==
    \/ \E p \in Procs, id \in Ids : GulRLock(p, "RateLimit", id)
    \/ \E p \in Procs, id \in Ids : GulRLock(p, "GetRemaining", id)
    \/ \E p \in Procs : CacheReadValue(p)
    \/ \E p \in Procs : CacheReadExpiry(p)
    \/ \E p \in Procs : GulRUnlock(p)
    \/ \E p \in Procs : GulGet(p)
    \/ \E p \in Procs : GulGetFail(p)
    \/ \E p \in Procs : GulLock(p)
    \/ \E p \in Procs : CacheWriteValue(p)
    \/ \E p \in Procs : CacheWriteExpiry(p)
    \/ \E p \in Procs : GulUnlock(p)
    \/ \E p \in Procs : SvcAllow(p)
    \/ \E p \in Procs : SvcGetRemaining(p)
    \/ \E p \in Procs : SvcLimiterFail(p)
    \/ \E p \in Procs, id \in Ids, v \in OverrideValues : SetStore(p, id, v)
    \/ \E p \in Procs, id \in Ids, v \in OverrideValues : SetStoreFail(p, id, v)
    \/ \E p \in Procs : SetLock(p)
    \/ \E p \in Procs : SetUnlock(p)
    \/ CleanupLock
    \/ \E id \in Ids : CleanupDeleteValue(id)
    \/ CleanupDeleteExpiry
    \/ CleanupUnlock
    \/ \E d \in SvcSteps : SvcTick(d)

SpecHold == InitStale /\ [][NextHold]_vars

\* ------------------------------------------------------------ middleware
\* (mutant) an error of RateLimit is answered like a denial
MiddlewareOutcomeFailClosed(allowed, err) ==
    IF err \/ ~allowed THEN "429" ELSE "next"

\* RateLimiterMiddleware: if err != nil { return next(c) };
\* if !allowed { return c.JSON(http.StatusTooManyRequests, ...) }; return next(c)
MiddlewareOutcome(allowed, err) ==
    IF err THEN "next" ELSE IF ~allowed THEN "429" ELSE "next"

mwRest == <<clock, ticks, cfg, store, limVars, enableLocalCache, override, ottl,
            userLimitsCache, cacheExpiry, pc, frame, setDone, served,
            cacheMutex, written, cleanupPc>>

\* a request enters the middleware: userID from X-User-ID or the remote address
MwEnter(id) ==
    /\ mw.at = "idle"
    /\ pc["g1"] = "idle"
    /\ served < MaxCalls
    /\ mw' = [MwIdle EXCEPT !.at = "ratelimit", !.id = id]
    /\ slast' = NoSvcCall
    /\ UNCHANGED mwRest

\* allowed, err := rateLimiterService.RateLimit(ctx, userID, defaultLimit)
MwRateLimit ==
    /\ mw.at = "ratelimit" /\ slast.op = "none"
    /\ SvcStart("g1", "RateLimit", mw.id)

\* RateLimit returned: an error lets the request through at once; otherwise
\* GetRemaining is asked next, on the denied and on the allowed path
MwAfterRateLimit ==
    /\ mw.at = "ratelimit" /\ slast.op = "RateLimit"
    /\ mw' = IF slast.err
             THEN [mw EXCEPT !.at = "idle", !.allowed = slast.allowed, !.err = slast.err,
                             !.out = MiddlewareOutcome(slast.allowed, slast.err)]
             ELSE [mw EXCEPT !.at = "remaining", !.allowed = slast.allowed,
                             !.err = slast.err]
    /\ UNCHANGED <<mwRest, slast>>

\* remaining, _ := rateLimiterService.GetRemaining(ctx, userID, defaultLimit)
MwGetRemaining ==
    /\ mw.at = "remaining" /\ slast.op = "RateLimit"
    /\ SvcStart("g1", "GetRemaining", mw.id)

\* GetRemaining returned, its error ignored: 429 or next(c)
MwRespond ==
    /\ mw.at = "remaining" /\ slast.op = "GetRemaining"
    /\ mw' = [mw EXCEPT !.at = "idle", !.out = MiddlewareOutcome(mw.allowed, mw.err)]
    /\ UNCHANGED <<mwRest, slast>>

NextMw ==
    \/ \E id \in Ids : MwEnter(id)
    \/ MwRateLimit
    \/ GulGet("g1")
    \/ GulGetFail("g1")
    \/ SvcAllow("g1")
    \/ SvcLimiterFail("g1")
    \/ MwAfterRateLimit
    \/ MwGetRemaining
    \/ SvcGetRemaining("g1")
    \/ MwRespond
    \/ \E d \in Steps : Tick(d)

\* Requests pass through the middleware one after the other.
SpecMw == Init /\ [][NextMw]_vars

\* ================================================================== claims

\* the Allow calls of log[id] that were admitted with a timestamp in (lo, hi]
AdmittedBetween(id, lo, hi) ==
    {k \in 1..Len(log[id]) :
        log[id][k].allowed /\ log[id][k].now > lo /\ log[id][k].now <= hi}

\* C1: sliding window, one caller, limit L: from a fresh identity the first L
\* Allow calls inside one window are allowed and the (L+1)-th inside that
\* window is denied. (Inside one window: the call has run less than W after
\* the first call was made.)
C1_LimitThenDeny ==
    algorithm = "sliding_window" =>
        \A id \in Ids :
            LET lg == log[id] IN
            /\ \A k \in 1..Len(lg) :
                  (k <= limit /\ lg[k].at - lg[1].now < WindowMs) => lg[k].allowed
            /\ (Len(lg) > limit /\ lg[limit + 1].at - lg[1].now < WindowMs)
                  => ~lg[limit + 1].allowed

\* C3: sliding window: after the purge of an Allow or a GetRemaining the number
\* of entries is the number of requests admitted in (now - W, now], and no
\* interval of length W holds more than L admitted requests. (Stated for the
\* calls the store ran in the millisecond in which they were made.)
C3_CountIsAdmitted ==
    algorithm = "sliding_window" =>
        \A id \in Ids :
            LET lg == log[id]
                prompt == \A k \in 1..Len(lg) : lg[k].at = lg[k].now
            IN
            /\ \A k \in 1..Len(lg) : prompt => lg[k].count = lg[k].n
            /\ (last.op = "GetRemaining" /\ last.id = id /\ ~last.failed
                  /\ last.at = last.now /\ prompt)
                  => last.count = last.n
            /\ \A k \in 1..Len(lg) :
                  prompt => Cardinality(AdmittedBetween(id, lg[k].now - WindowMs,
                                                        lg[k].now)) <= limit

\* C4: leaky bucket, limit L: on a fresh identity L Allow calls with no time
\* between them are allowed and the (L+1)-th is denied; an Allow made a full
\* window or more after the previous one is allowed.
C4_LeakyFillThenDrain ==
    algorithm = "leaky_bucket" =>
        \A id \in Ids :
            LET lg == log[id] IN
            /\ \A k \in 1..Len(lg) :
                  (k <= limit /\ lg[k].at = lg[1].now) => lg[k].allowed
            /\ (Len(lg) > limit /\ lg[limit + 1].at = lg[1].now)
                  => ~lg[limit + 1].allowed
            /\ \A k \in 2..Len(lg) :
                  lg[k].now - lg[k - 1].now >= WindowMs => lg[k].allowed

C4_Witness ==
    /\ algorithm = "leaky_bucket"
    /\ \E id \in Ids :
          LET lg == log[id] IN
          /\ Len(lg) = limit + 2
          /\ lg[limit + 1].at = lg[1].now
          /\ ~lg[limit + 1].allowed
          /\ lg[limit + 2].now - lg[limit + 1].now >= WindowMs
          /\ lg[limit + 2].allowed

\* C5: sliding-window GetRemaining after N requests were admitted in the
\* current window returns max(0, L - N). (Stated for calls the store ran in
\* the millisecond in which they were made.)
C5_RemainingIsLimitMinusAdmitted ==
    (/\ algorithm = "sliding_window"
     /\ last.op = "GetRemaining" /\ ~last.failed /\ last.at = last.now
     /\ \A k \in 1..Len(log[last.id]) : log[last.id][k].at = log[last.id][k].now)
        => last.remaining = Max(0, limit - last.n)

\* C6: both algorithms: a Reset that reached the store returns no error,
\* also when the identity has no record, and leaves the identity as a
\* never-seen one; the first Allow on such an identity is allowed.
C6_ResetMakesFresh ==
    \A id \in Ids :
        /\ (last.op = "Reset" /\ last.id = id /\ ~last.failed)
              => (~last.err /\ Fresh(id) /\ log[id] = <<>>)
        /\ Len(log[id]) >= 1 => log[id][1].allowed

\* a Reset of an identity that had a record
C6_Witness ==
    /\ last.op = "Reset" /\ ~last.failed /\ last.count = 1
    /\ \E id \in Ids : last.id = id /\ Fresh(id)

\* C2: 2 * L Allow calls issued concurrently inside one window on a fresh
\* identity: exactly L are allowed (and L denied), and no two of them decide
\* "allowed" from the same state of the record. (Stated for the sliding
\* window.)
C2_BurstAdmitsExactlyLimit ==
    algorithm = "sliding_window" =>
        \A id \in Ids :
            LET lg == log[id] IN
            (/\ Len(lg) = 2 * limit
             /\ \A j, k \in 1..Len(lg) : lg[k].at - lg[j].now < WindowMs)
            => /\ Cardinality({k \in 1..Len(lg) : lg[k].allowed}) = limit
               /\ \A j, k \in 1..Len(lg) :
                     (j # k /\ lg[j].allowed /\ lg[k].allowed) => lg[j].pre # lg[k].pre


\* C7: with the cache enabled, a RateLimit that begins after SetUserLimit(id, v)
\* has returned is decided against v with no store lookup as long as the
\* cache entry written by that call is unexpired; once its TTL has elapsed
\* (and nothing has rewritten the entry) the RateLimit does a store lookup.
\* Stated for the runs in which no other client has overwritten the stored
\* override: the store holds v or nothing.
C7_OverrideServedFromCache ==
    (/\ enableLocalCache /\ slast.op = "RateLimit" /\ slast.covered
     /\ override[slast.id] \in {FormatInt(slast.coverV), NoValue}) =>
        IF slast.inTtl
        THEN slast.lim = slast.coverV /\ slast.lookups = 0
        ELSE slast.untouched => slast.lookups = 1

C9_LookupFailureFallsBack ==
    (slast.op \in {"RateLimit", "GetRemaining"} /\ slast.storeSeen \in {"error", "invalid"}) =>
        /\ slast.lim = limit
        /\ slast.err <=> slast.failed
        /\ (slast.op = "RateLimit" /\ ~slast.failed) => slast.allowed = slast.decision

C9_Witness ==
    /\ slast.op = "RateLimit"
    /\ slast.storeSeen = "invalid"
    /\ slast.allowed /\ ~slast.err

\* C10: a store call of Allow, GetRemaining, Reset or SetUserLimit that does
\* not go through is returned as an error; RateLimit never returns allowed
\* together with an error, and (false, nil) is a denial decided by the script.
C10_StoreFailureIsAnError ==
    /\ slast.failed => slast.err
    /\ slast.err => ~slast.allowed
    /\ (slast.op = "RateLimit" /\ ~slast.err /\ ~slast.allowed) =>
           ~slast.failed /\ ~slast.decision

C10_Witness ==
    /\ slast.op = "RateLimit"
    /\ slast.failed /\ slast.err /\ ~slast.allowed


\* C11: SetUserLimit(id, v) leaves under rate_limit:config:<id> a value that
\* parses back to exactly v, with a TTL of LocalCacheTTL seconds; a lookup
\* that goes to the store while that value is there returns v and no error.
C11_SetThenLookup ==
    [][/\ (served' = served + 1 /\ slast'.op = "SetUserLimit" /\ ~slast'.failed) =>
            /\ override'[slast'.id].present
            /\ ParseInt(override'[slast'.id]) = [err |-> FALSE, n |-> slast'.v]
            /\ ottl'[slast'.id] = clock + LocalCacheTTL * MsPerSec
       /\ \A p \in Procs :
            (/\ pc[p] = "get" /\ pc'[p] # "get"
             /\ frame[p].covered
             /\ override[frame[p].id].present) =>
                /\ frame'[p].storeSeen = "value"
                /\ frame'[p].ul = frame[p].coverV
                /\ ~frame'[p].rerr]_vars

C11_Witness ==
    /\ slast.op = "RateLimit"
    /\ slast.covered /\ slast.lookups = 1
    /\ slast.storeSeen = "value"
    /\ slast.seen = slast.coverV
    /\ slast.coverV < 0 - 9


\* C12: Service.Reset(id) removes the record of the configured algorithm and
\* nothing else: the stored override and its expiry, the cache maps and the
\* other algorithm's record are as they were before the call.
C12_ResetKeepsOverride ==
    [][(slast' # slast /\ slast'.op = "Reset") =>
          /\ override' = override /\ ottl' = ottl
          /\ userLimitsCache' = userLimitsCache /\ cacheExpiry' = cacheExpiry
          /\ IF algorithm = "sliding_window"
             THEN /\ bucket' = bucket /\ bttl' = bttl
                  /\ ~slast'.failed => zset'[slast'.id] = {}
             ELSE /\ zset' = zset /\ zttl' = zttl
                  /\ ~slast'.failed => bucket'[slast'.id] = NoBucket]_vars

C12_Witness ==
    /\ slast.op = "Reset" /\ ~slast.failed
    /\ Fresh(slast.id)
    /\ setDone[slast.id] # NoSet
    /\ override[slast.id] = FormatInt(setDone[slast.id].v)
    /\ slast.id \in DOMAIN userLimitsCache
    /\ userLimitsCache[slast.id] = setDone[slast.id].v


\* C13: once LocalCacheTTL seconds have passed since SetUserLimit(id, v)
\* changed the override (no later SetUserLimit has written the store, the
\* key holds v or has expired), the instance no longer resolves the limit of id from a cache entry holding another value;
\* and no cache entry is used once its own expiry has passed.
C13_BoundedStaleness ==
    (enableLocalCache /\ slast.op = "RateLimit") =>
        /\ slast.hit => slast.live
        /\ (/\ slast.covered /\ ~slast.inTtl /\ slast.hit
            /\ \A p \in Procs : pc[p] # "setcache"
            /\ override[slast.id] \in {FormatInt(slast.coverV), NoValue}) =>
               slast.seen = slast.coverV


\* C14: a goroutine reading the cache under RLock never sees a half-written
\* entry: the value it read and the expiry it reads next are those of one and
\* the same completed cache write. While a writer holds cacheMutex nobody else
\* holds it, and the maps change only in steps of the one writer.
C14_NoTornEntry ==
    [][/\ \A p \in Procs :
            (pc[p] = "rexpiry" /\ pc'[p] = "runlock") =>
                /\ frame[p].id \in DOMAIN cacheExpiry
                /\ written[frame[p].id] =
                       [v |-> frame[p].seen, exp |-> cacheExpiry[frame[p].id]]
       /\ cacheMutex'.writer # {} =>
            /\ cacheMutex'.readers = {}
            /\ Cardinality(cacheMutex'.writer) = 1
       /\ (userLimitsCache' # userLimitsCache \/ cacheExpiry' # cacheExpiry) =>
            /\ cacheMutex.writer # {}
            /\ cacheMutex' = cacheMutex]_vars

\* two goroutines hold the read lock at once, one of them having read a whole
\* entry, after a second write replaced both halves of the first
C14_Witness ==
    /\ cacheMutex.readers = Procs
    /\ \E p \in Procs : pc[p] = "runlock" /\ frame[p].hit /\ frame[p].seen = 2
    /\ \E p \in Procs : pc[p] = "rexpiry"
    /\ clock > 0


\* C15: a step that deletes from the cache deletes every entry whose expiry
\* lies before now, from both maps, and leaves every other entry as it was;
\* and an entry whose expiry has passed does not stay for ever: it is deleted
\* or refreshed.
C15_CleanupRemovesExpired ==
    /\ [][DOMAIN cacheExpiry' # DOMAIN cacheExpiry /\ DOMAIN cacheExpiry' \subseteq DOMAIN cacheExpiry =>
            \A id \in DOMAIN cacheExpiry :
                IF clock > cacheExpiry[id]
                THEN id \notin DOMAIN cacheExpiry' /\ id \notin DOMAIN userLimitsCache'
                ELSE /\ id \in DOMAIN cacheExpiry' /\ id \in DOMAIN userLimitsCache'
                     /\ cacheExpiry'[id] = cacheExpiry[id]
                     /\ userLimitsCache'[id] = userLimitsCache[id]]_vars
    /\ \A id \in Ids :
          (id \in DOMAIN cacheExpiry /\ clock > cacheExpiry[id])
              ~> (id \notin DOMAIN cacheExpiry \/ clock <= cacheExpiry[id])

\* the cleanup has emptied the cache of an entry that had been set
C15_Witness ==
    /\ enableLocalCache
    /\ \E id \in Ids : setDone[id] # NoSet /\ clock > setDone[id].exp
                       /\ id \notin DOMAIN cacheExpiry /\ id \notin DOMAIN userLimitsCache


\* C16: the stored level of a leaky bucket is never negative and never above
\* the limit (levels are kept scaled by WindowSize).
C16_LevelWithinLimit ==
    \A id \in Ids :
        bucket[id].has_level =>
            /\ 0 <= bucket[id].level
            /\ bucket[id].level <= limit * WindowSize


\* C17: the level drains at limit requests per window. An Allow that runs
\* elapsed ms after the last update decides on the stored level less
\* limit * elapsed / WindowMs, floored at 0, and an admission stores that
\* level plus one (both sides multiplied by WindowMs).
C17_LeakRate ==
    [][\A id \in Ids :
          (algorithm = "leaky_bucket" /\ Len(log'[id]) = Len(log[id]) + 1) =>
              LET e == log'[id][Len(log'[id])]
                  elapsed == e.now - e.pre.last_update
                  drained == IF e.pre.has_level
                             THEN Max(0, e.pre.level * MsPerSec - limit * elapsed)
                             ELSE 0
              IN  /\ e.allowed = (drained < limit * WindowMs)
                  /\ e.allowed => bucket'[id].level * MsPerSec = drained + WindowMs]_vars


\* a leaky GetRemaining has just returned what the store gave it for a
\* bucket that holds both fields
LBGetRemainingReturned ==
    /\ algorithm = "leaky_bucket"
    /\ BagCardinality(inflight') < BagCardinality(inflight)
    /\ last'.op = "GetRemaining" /\ ~last'.failed
    /\ bucket[last'.id].has_level /\ bucket[last'.id].has_last

\* C18 (as stated): GetRemaining returns max(0, limit - round(level')),
\* level' being the stored level decayed as Allow decays it.
C18_RemainingRounds ==
    [][LBGetRemainingReturned =>
          last'.remaining = Max(0, limit - Round(LBLevel(last'.id, last'.now, limit)))]_vars

\* C18 (amended): GetRemaining returns max(0, limit - int(level')), the
\* decayed level cut to its whole part.
C18_RemainingTruncates ==
    [][LBGetRemainingReturned =>
          /\ ~last'.err
          /\ last'.remaining = Max(0, limit - Trunc(LBLevel(last'.id, last'.now, limit)))]_vars

\* GetRemaining has returned for a level with a fraction of one half or more
C18_Witness ==
    /\ algorithm = "leaky_bucket"
    /\ last.op = "GetRemaining" /\ ~last.failed /\ ~last.err
    /\ bucket[last.id].has_level /\ bucket[last.id].has_last
    /\ Round(LBLevel(last.id, last.now, limit)) # Trunc(LBLevel(last.id, last.now, limit))
    /\ last.remaining = limit - Trunc(LBLevel(last.id, last.now, limit))


\* a leaky Allow or GetRemaining has just returned what the store gave it
\* for a bucket with a field that is not a number
LBReturnedOnMalformed ==
    /\ algorithm = "leaky_bucket"
    /\ BagCardinality(inflight') < BagCardinality(inflight)
    /\ last'.op \in {"Allow", "GetRemaining"} /\ ~last'.failed
    /\ \/ bucket[last'.id].has_level /\ bucket[last'.id].bad_level
       \/ bucket[last'.id].has_last /\ bucket[last'.id].bad_last

\* C19: a bucket field that is not a number never makes the leaky bucket
\* return an error, and GetRemaining returns the limit.
C19_MalformedIsNotAnError ==
    [][LBReturnedOnMalformed =>
          /\ ~last'.err
          /\ last'.op = "GetRemaining" => last'.remaining = limit]_vars


\* everything the store and the cache hold for one identity
RecordsOf(id) ==
    <<zset[id], zttl[id], bucket[id], bttl[id], override[id], ottl[id],
      IF id \in DOMAIN userLimitsCache THEN <<userLimitsCache[id]>> ELSE <<>>,
      IF id \in DOMAIN cacheExpiry THEN <<cacheExpiry[id]>> ELSE <<>>>>

\* the identity the step of goroutine g1 works for
StepIdentity ==
    IF pc["g1"] # "idle" THEN frame["g1"].id
    ELSE IF pc'["g1"] # "idle" THEN frame'["g1"].id
    ELSE slast'.id

\* C20: a step of an operation for one identity leaves everything held for
\* every other identity as it was, and two keys are equal only when they are
\* of the same kind and for the same identity.
C20_IdentitiesIsolated ==
    [][/\ clock' = clock =>
            \A other \in Identities \ {StepIdentity} : RecordsOf(other)' = RecordsOf(other)
       /\ \A k1 \in Kinds, k2 \in Kinds, id1 \in KeyIds, id2 \in KeyIds :
            Key(k1, id1) = Key(k2, id2) => (k1 = k2 /\ id1 = id2)]_vars

\* a has been reset after b was served and given an override: b keeps its
\* limiter record and its override
C20_Witness ==
    /\ slast.op = "Reset" /\ slast.id = "a" /\ Fresh("a")
    /\ ~Fresh("b")
    /\ override["b"].present
    /\ override["a"].present /\ override["a"] # override["b"]


\* the sliding-window Allow that the store has just run, as the log has it
SWAllowRan(id) ==
    /\ algorithm = "sliding_window"
    /\ Len(log'[id]) = Len(log[id]) + 1

\* C21: a sliding-window Allow at time now is allowed exactly when fewer
\* than limit stored entries have a score above now - W; afterwards no entry
\* with a score of now - W or less is left.
C21_AllowedIffCountBelowLimit ==
    [][\A id \in Ids :
          SWAllowRan(id) =>
              LET e == log'[id][Len(log'[id])]
                  counted == {m \in e.pre : m > e.now - WindowMs}
              IN  /\ e.allowed = (Cardinality(counted) < limit)
                  /\ \A m \in zset'[id] : m > e.now - WindowMs
                  /\ counted \subseteq zset'[id]]_vars

\* an Allow found limit entries, one of them exactly a window old, and was
\* allowed
C21_Witness ==
    /\ algorithm = "sliding_window"
    /\ \E id \in Ids : \E k \in 1..Len(log[id]) :
          /\ log[id][k].allowed
          /\ (log[id][k].now - WindowMs) \in log[id][k].pre
          /\ Cardinality(log[id][k].pre) = limit


\* C22: a denied sliding-window Allow leaves in the collection exactly the
\* entries it found inside the window, adds none, and leaves the expiry of
\* the key as it was.
C22_DeniedInsertsNothing ==
    [][\A id \in Ids :
          SWAllowRan(id) =>
              LET e == log'[id][Len(log'[id])] IN
              ~e.allowed =>
                  /\ zset'[id] = {m \in e.pre : m > e.now - WindowMs}
                  /\ zset'[id] \subseteq zset[id]
                  /\ zttl'[id] = zttl[id]]_vars

\* a request has just been denied at a time no entry carries
C22_Witness ==
    /\ algorithm = "sliding_window"
    /\ last.op = "Allow" /\ ~last.allowed /\ ~last.failed
    /\ zset[last.id] # {}
    /\ last.now \notin zset[last.id]
    /\ Len(log[last.id]) > 0
    /\ ~log[last.id][Len(log[last.id])].allowed
    /\ log[last.id][Len(log[last.id])].pre = zset[last.id]


\* the leaky-bucket Allow that the store has just run, as the log has it
LBAllowRan(id) ==
    /\ algorithm = "leaky_bucket"
    /\ Len(log'[id]) = Len(log[id]) + 1

\* the level the script decides on: the stored level less elapsed * leak
\* rate, floored at 0; 0 for an absent record
DecayedLevel(pre, now) ==
    IF pre.has_level THEN Max(0, pre.level - (now - pre.last_update) * limit) ELSE 0

\* C23: a denied leaky-bucket Allow leaves the level field as it was, sets
\* last_update to now and renews the expiry; an allowed one stores the
\* decayed level plus one (WindowSize in scaled units) and last_update = now.
C23_DeniedKeepsLevel ==
    [][\A id \in Ids :
          LBAllowRan(id) =>
              LET e == log'[id][Len(log'[id])] IN
              /\ bucket'[id].has_last /\ bucket'[id].last_update = e.now
              /\ bttl'[id] = clock + ExpireSecs * MsPerSec
              /\ IF e.allowed
                 THEN /\ bucket'[id].has_level
                      /\ bucket'[id].level = DecayedLevel(e.pre, e.now) + WindowSize
                 ELSE /\ bucket'[id].has_level = e.pre.has_level
                      /\ bucket'[id].level = e.pre.level]_vars

\* a request has just been denied on a level that had decayed since the
\* last update
C23_Witness ==
    /\ algorithm = "leaky_bucket"
    /\ last.op = "Allow" /\ ~last.allowed /\ ~last.failed /\ ~last.err
    /\ Len(log[last.id]) > 0
    /\ LET e == log[last.id][Len(log[last.id])] IN
          /\ ~e.allowed
          /\ DecayedLevel(e.pre, e.now) < e.pre.level
          /\ bucket[last.id].level = e.pre.level
          /\ bucket[last.id].last_update = e.now


RECURSIVE LastAdmitted(_)
LastAdmitted(l) ==
    IF l = <<>> THEN 0 - 1
    ELSE IF l[Len(l)].allowed THEN l[Len(l)].now
    ELSE LastAdmitted(SubSeq(l, 1, Len(l) - 1))

\* C25: the leak credited to a bucket runs from the last admission, whatever
\* denied requests came since: an Allow is decided on the level that
\* admission stored, less the leak of the whole time since then.
C25_DeniedDoNotPostpone ==
    [][\A id \in Ids :
          (LBAllowRan(id) /\ LastAdmitted(log[id]) >= 0) =>
              LET e == log'[id][Len(log'[id])]
                  sinceAdmission == e.now - LastAdmitted(log[id])
              IN  e.allowed =
                      (Max(0, e.pre.level - sinceAdmission * limit) < limit * WindowSize)]_vars


\* C26: a leaky-bucket GetRemaining leaves the level, last_update and the
\* expiry of every bucket as they were.
C26_GetRemainingReadsOnly ==
    [][(/\ algorithm = "leaky_bucket"
        /\ BagCardinality(inflight') < BagCardinality(inflight)
        /\ last'.op = "GetRemaining") =>
            bucket' = bucket /\ bttl' = bttl]_vars

\* GetRemaining has returned a count for a bucket that was last updated at
\* an earlier time
C26_Witness ==
    /\ algorithm = "leaky_bucket"
    /\ last.op = "GetRemaining" /\ ~last.failed /\ ~last.err
    /\ bucket[last.id].has_level /\ bucket[last.id].has_last
    /\ bucket[last.id].last_update < last.now
    /\ bucket[last.id].level > 0
    /\ last.remaining = LBRemaining(last.id, last.now, limit)


\* C27: a SetUserLimit whose store write failed returns an error and leaves
\* the cache maps as they were; one that succeeded with the cache enabled
\* returns nil and leaves the new value in the cache with expiry
\* now + LocalCacheTTL; with the cache disabled the maps stay empty.
C27_SetUserLimitAndCache ==
    [][/\ (slast' # slast /\ slast'.op = "SetUserLimit") =>
            IF slast'.failed
            THEN /\ slast'.err
                 /\ userLimitsCache' = userLimitsCache
                 /\ cacheExpiry' = cacheExpiry
            ELSE /\ ~slast'.err
                 /\ enableLocalCache =>
                       /\ slast'.id \in DOMAIN userLimitsCache'
                       /\ slast'.id \in DOMAIN cacheExpiry'
                       /\ userLimitsCache'[slast'.id] = slast'.v
                       /\ cacheExpiry'[slast'.id] = clock + LocalCacheTTL * MsPerSec
       /\ ~enableLocalCache =>
            userLimitsCache' = EmptyMap /\ cacheExpiry' = EmptyMap]_vars

\* a SetUserLimit has failed while the cache holds another value for the
\* identity
C27_Witness ==
    /\ enableLocalCache
    /\ slast.op = "SetUserLimit" /\ slast.failed /\ slast.err
    /\ slast.id \in DOMAIN userLimitsCache
    /\ userLimitsCache[slast.id] # slast.v
    /\ override[slast.id] = FormatInt(userLimitsCache[slast.id])


\* C28: when no call is in flight on the instance (and only this instance
\* writes overrides), an unexpired cache entry holds the value the store
\* holds for the identity, the value of the SetUserLimit that completed last.
C28_CacheAgreesWithStore ==
    (\A p \in Procs : pc[p] = "idle") =>
        \A id \in Ids :
            (/\ id \in DOMAIN userLimitsCache /\ id \in DOMAIN cacheExpiry
             /\ clock < cacheExpiry[id]
             /\ override[id].present) =>
                /\ FormatInt(userLimitsCache[id]) = override[id]
                /\ setDone[id] # NoSet => userLimitsCache[id] = setDone[id].v


\* C29: once LocalCacheTTL seconds have passed since the most recent
\* successful SetUserLimit for an identity and its store key has expired, a
\* RateLimit for the identity is decided against the caller's fallback limit,
\* not against an override value.
C29_OverrideEndsWithTtl ==
    (/\ slast.op = "RateLimit"
     /\ slast.covered /\ ~slast.inTtl
     /\ clock >= setDone[slast.id].exp
     /\ override[slast.id] = NoValue
     /\ \A p \in Procs : pc[p] # "setcache") =>
        slast.lim = limit


\* C30: a RateLimit that follows a successful SetUserLimit(id, v) and finds
\* the override in the store hands v to the limiter, whatever integer v is,
\* and not the caller's fallback limit; after SetUserLimit(id, 0) it is denied.
C30_DecidedAgainstOverride ==
    (/\ slast.op = "RateLimit"
     /\ slast.covered
     /\ slast.storeSeen = "value" /\ ~slast.rerr) =>
        /\ slast.lim = slast.coverV
        /\ slast.coverV = 0 => ~slast.allowed


\* C31: a RateLimit call looks the override up at most once, not at all when
\* the cache is enabled and holds an unexpired entry and exactly once
\* otherwise; the limiter records are left alone until the lookup is over;
\* then the script of the configured algorithm runs once, as one step, and
\* the call returns.
C31_OneLookupThenOneTransaction ==
    [][\A p \in Procs :
        /\ (pc[p] = "idle" /\ pc'[p] # "idle" /\ frame'[p].op = "RateLimit") =>
              /\ UNCHANGED store
              /\ frame'[p].lookups = 0
              /\ pc'[p] = (IF enableLocalCache /\ frame'[p].live THEN "limiter" ELSE "get")
        /\ (frame[p].op = "RateLimit" /\ pc[p] = "get" /\ frame'[p] # frame[p]) =>
              /\ UNCHANGED store
              /\ frame[p].lookups = 0 /\ frame'[p].lookups = 1
              /\ pc'[p] \in {"cache", "limiter"}
        /\ (frame[p].op = "RateLimit" /\ pc[p] = "cache" /\ pc'[p] # "cache") =>
              /\ UNCHANGED store
              /\ pc'[p] = "limiter"
        /\ (frame[p].op = "RateLimit" /\ pc[p] = "limiter" /\ pc'[p] # "limiter") =>
              LET id == frame[p].id
                  lim == slast'.lim
              IN  /\ pc'[p] = "idle" /\ slast'.op = "RateLimit"
                  /\ frame[p].lookups = (IF frame[p].hit THEN 0 ELSE 1)
                  /\ slast'.lookups = frame[p].lookups
                  /\ \A i \in Identities \ {id} :
                        /\ zset'[i] = zset[i] /\ bucket'[i] = bucket[i]
                  /\ IF slast'.failed THEN UNCHANGED store
                     ELSE IF algorithm = "sliding_window"
                     THEN /\ zset'[id] = SWAfterAllow(id, clock, lim)
                          /\ UNCHANGED <<bucket, bttl>>
                     ELSE /\ bucket'[id] = LBAfterAllow(id, clock, lim)
                          /\ UNCHANGED <<zset, zttl>>]_vars

C31_Witness ==
    /\ enableLocalCache
    /\ slast.op = "RateLimit" /\ ~slast.failed
    /\ ~slast.hit /\ slast.lookups = 1 /\ slast.storeSeen = "nil"
    /\ slast.allowed


\* C32: the algorithm of an instance never changes; its RateLimit,
\* GetRemaining and Reset work on the sliding-window record when Algorithm
\* is "sliding_window" and on the leaky-bucket record for any other value,
\* and leave the record of the other algorithm as it is.
C32_AlgorithmIsFixed ==
    [][/\ algorithm' = algorithm
       /\ clock' = clock =>
             IF algorithm = "sliding_window"
             THEN UNCHANGED <<bucket, bttl>> ELSE UNCHANGED <<zset, zttl>>
       /\ (slast' # slast /\ slast'.op = "Reset" /\ ~slast'.failed) =>
             IF algorithm = "sliding_window"
             THEN zset'[slast'.id] = {} ELSE bucket'[slast'.id] = NoBucket
       /\ (slast' # slast /\ slast'.op = "RateLimit" /\ ~slast'.failed) =>
             IF algorithm = "sliding_window"
             THEN /\ slast'.allowed = SWAllowed(slast'.id, clock, slast'.lim)
                  /\ zset'[slast'.id] = SWAfterAllow(slast'.id, clock, slast'.lim)
             ELSE /\ slast'.allowed = LBAllowed(slast'.id, clock, slast'.lim)
                  /\ bucket'[slast'.id] = LBAfterAllow(slast'.id, clock, slast'.lim)
       /\ (slast' # slast /\ slast'.op = "GetRemaining" /\ ~slast'.failed) =>
             slast'.remaining =
                 IF algorithm = "sliding_window"
                 THEN SWRemaining(SWCount(slast'.id, clock), slast'.lim)
                 ELSE LBRemaining(slast'.id, clock, slast'.lim)]_vars

C32_Witness ==
    /\ algorithm = "token_bucket"
    /\ slast.op = "Reset" /\ ~slast.failed
    /\ bucket[slast.id] = NoBucket
    /\ zset[slast.id] = PeerZset


\* the Reset of id runs in this step
ResetRan(id) ==
    \E c \in BagToSet(inflight) :
        /\ c.op = "Reset" /\ c.id = id
        /\ inflight' = inflight (-) SetToBag({c})

\* the store drops the key of id in this step because its expiry is reached
KeyExpires(ttl) == clock' > clock /\ Expired(ttl, clock')

\* a GetRemaining of id is in flight whose purge leaves no entry
PurgeEmpties(id) ==
    \E c \in BagToSet(inflight) :
        /\ c.op = "GetRemaining" /\ c.id = id
        /\ Purge(zset[id], c.now - WindowMs) = {}

ExpiryIsSet(id) ==
    /\ SWAllowRan(id) =>
          IF log'[id][Len(log'[id])].allowed
          THEN zttl'[id] = clock + ExpireSecs * MsPerSec
          ELSE zttl'[id] = zttl[id]
    /\ LBAllowRan(id) => bttl'[id] = clock + ExpireSecs * MsPerSec
    /\ (bucket[id] # NoBucket /\ bucket'[id] = NoBucket) =>
          ResetRan(id) \/ KeyExpires(bttl[id])

\* C33 as stated: an allowed Allow of either algorithm and a denied
\* leaky-bucket Allow set the expiry of the record to ceil(W) + 1 seconds
\* from the execution of the script, a denied sliding-window Allow leaves the
\* expiry as it is, and apart from expiry only Reset deletes a record.
C33_DeletedOnlyByReset ==
    [][\A id \in Ids :
          /\ ExpiryIsSet(id)
          /\ (zset[id] # {} /\ zset'[id] = {}) =>
                ResetRan(id) \/ KeyExpires(zttl[id])]_vars

\* C33 amended: the same, and the sliding-window key also goes away when the
\* purge of a GetRemaining removes its last entries, all of them out of the
\* window, before the expiry is reached.
C33_RecordExpiry ==
    [][\A id \in Ids :
          /\ ExpiryIsSet(id)
          /\ (zset[id] # {} /\ zset'[id] = {}) =>
                ResetRan(id) \/ KeyExpires(zttl[id]) \/ PurgeEmpties(id)]_vars

C33_Witness ==
    /\ algorithm = "sliding_window"
    /\ Len(log["a"]) > 0
    /\ log["a"][Len(log["a"])].allowed
    /\ clock < log["a"][Len(log["a"])].at + ExpireSecs * MsPerSec
    /\ zset["a"] = {} /\ zttl["a"] = NoTTL


\* What a store without expiry would hold for id: every timestamp admitted
\* since the last Reset, and the hash as the last Allow left it.
KeptSet(id) == {log[id][k].now : k \in {j \in 1..Len(log[id]) : log[id][j].allowed}}

KeptBucket(id) ==
    IF log[id] = <<>> THEN NoBucket
    ELSE LET e == log[id][Len(log[id])] IN
         [has_level |-> TRUE,
          level |-> IF e.allowed THEN DecayedLevel(e.pre, e.now) + WindowSize
                    ELSE e.pre.level,
          has_last |-> TRUE, last_update |-> e.now,
          bad_level |-> FALSE, bad_last |-> FALSE]

\* the time by which the expiry exceeds the window
ExpirySlack == ExpireSecs * MsPerSec - WindowMs

\* the call computes on the stored record what it would compute on the kept one
SameAsKept(c) ==
    IF algorithm = "sliding_window"
    THEN Purge(zset[c.id], c.now - WindowMs) = Purge(KeptSet(c.id), c.now - WindowMs)
    ELSE DecayedLevel(bucket[c.id], c.now) = DecayedLevel(KeptBucket(c.id), c.now)

\* a key that expires holds nothing a call made at the expiry would count
ExpiresEmpty(id) ==
    /\ (zset[id] # {} /\ KeyExpires(zttl[id])) =>
          \A m \in zset[id] : m <= zttl[id] - WindowMs
    /\ (bucket[id] # NoBucket /\ KeyExpires(bttl[id])) =>
          DecayedLevel(bucket[id], bttl[id]) = 0

\* C34 as stated: every Allow and GetRemaining computes the same on the
\* store that expires idle records as on a store that keeps them; a
\* sliding-window key that expires has no entry inside the window and a
\* bucket that expires has decayed to level 0.
C34_ExpiryIsNeutral ==
    /\ [](\A c \in BagToSet(inflight) :
            c.op \in {"Allow", "GetRemaining"} => SameAsKept(c))
    /\ [][\A id \in Ids : ExpiresEmpty(id)]_vars

\* C34 amended: the same for the calls whose store commands run no later
\* than the expiry slack (one second) after the call took its timestamp.
C34_ExpiryIsNeutralInTime ==
    /\ [](\A c \in BagToSet(inflight) :
            (c.op \in {"Allow", "GetRemaining"} /\ clock - c.now <= ExpirySlack) =>
                SameAsKept(c))
    /\ [][\A id \in Ids : ExpiresEmpty(id)]_vars

C34_Witness ==
    /\ log["a"] # <<>>
    /\ log["a"][Len(log["a"])].allowed
    /\ Fresh("a")
    /\ \E c \in BagToSet(inflight) :
          /\ c.op = "Allow" /\ c.id = "a"
          /\ clock - c.now <= ExpirySlack


\* the limits a caller may pass, 0 included
AgreeLimits == 0..(MaxCalls + 1)

\* the instants of the state: the present and the timestamps of the calls in flight
Instants == {clock} \cup {c.now : c \in BagToSet(inflight)}

RemainingAt(id, now, lim) ==
    IF algorithm = "sliding_window"
    THEN SWRemaining(SWCount(id, now), lim)
    ELSE LBRemaining(id, now, lim)

AllowedAt(id, now, lim) ==
    IF algorithm = "sliding_window"
    THEN SWAllowed(id, now, lim)
    ELSE LBAllowed(id, now, lim)

\* C35: for the record as stored, an instant and a limit L >= 0,
\* GetRemaining returns a value between 0 and L, and it returns 0 exactly
\* when Allow with the same L at the same instant is denied.
C35_RemainingAgreesWithAllow ==
    \A id \in Ids, now \in Instants, L \in AgreeLimits :
        /\ RemainingAt(id, now, L) \in 0..L
        /\ (RemainingAt(id, now, L) = 0) <=> ~AllowedAt(id, now, L)

C35_Witness ==
    /\ algorithm = "leaky_bucket"
    /\ last.op = "GetRemaining" /\ ~last.failed
    /\ last.remaining = 0 /\ last.now = clock
    /\ bucket["a"].has_level
    /\ DecayedLevel(bucket["a"], clock) > limit * WindowSize
    /\ ~LBAllowed("a", clock, limit)


\* The Allow scripts of a run, executed in the same order, at the same times
\* and with the same timestamps against a store that no GetRemaining
\* touches: the set and the expiry they leave, and the last decision.
RECURSIVE AllowsOnly(_)
AllowsOnly(seq) ==
    IF seq = <<>> THEN [set |-> {}, ttl |-> NoTTL, allowed |-> FALSE]
    ELSE LET prev == AllowsOnly(SubSeq(seq, 1, Len(seq) - 1))
             e == seq[Len(seq)]
             base == IF Expired(prev.ttl, e.at) THEN {} ELSE prev.set
             kept == Purge(base, e.now - WindowMs)
             ok == Cardinality(kept) < limit
         IN  [set |-> IF ok THEN kept \cup {e.now} ELSE kept,
              ttl |-> IF ok THEN e.at + ExpireSecs * MsPerSec
                      ELSE IF kept = {} THEN NoTTL ELSE prev.ttl,
              allowed |-> ok]

\* C36: every sliding-window Allow of a run has the result it has in the
\* run with the GetRemaining calls left out.
C36_GetRemainingIsNeutral ==
    \A id \in Ids : \A k \in 1..Len(log[id]) :
        log[id][k].allowed = AllowsOnly(SubSeq(log[id], 1, k)).allowed


\* where a goroutine is while it holds cacheMutex for reading, for writing
ReadSection == {"rvalue", "rexpiry", "runlock"}
WriteSection == {"wvalue", "wexpiry", "wunlock"}

\* C37: cacheMutex is held only inside the short sections that read or
\* write the two maps: not before or during a store call, not after the
\* call returned; a step that talks to the store neither takes nor gives up
\* the mutex; and whenever a goroutine waits for the mutex, its holder is
\* inside a section it leaves on its own, so nobody waits for ever on a
\* store call or on another waiter.
C37_LockNotHeldAcrossStore ==
    /\ [](/\ \A p \in Procs :
                /\ p \in cacheMutex.readers <=> pc[p] \in ReadSection
                /\ p \in cacheMutex.writer <=> pc[p] \in WriteSection
          /\ "cleanup" \in cacheMutex.writer <=> cleanupPc.at # "wait"
          /\ cacheMutex.readers \cup cacheMutex.writer \subseteq Procs \cup {"cleanup"}
          /\ (\E p \in Procs : pc[p] \in {"cache", "setcache"}) =>
                \/ CanLock(cacheMutex)
                \/ \E q \in Procs : pc[q] \in ReadSection \cup WriteSection
                \/ cleanupPc.at # "wait")
    /\ [][cacheMutex' # cacheMutex =>
             /\ UNCHANGED <<store, override, ottl>>
             /\ \A p \in Procs : frame'[p].lookups = frame[p].lookups]_vars

C37_Witness ==
    /\ pc["g1"] = "get"
    /\ pc["g2"] = "wvalue" /\ frame["g2"].op = "SetUserLimit"
    /\ cacheMutex.writer = {"g2"}


\* C38: the middleware hands the request to the next handler exactly when
\* RateLimit returned allowed = true or an error, and answers 429, the next
\* handler not called, exactly when RateLimit returned (false, nil).
C38_MiddlewareFailsOpen ==
    [][/\ (mw.at = "ratelimit" /\ mw'.at # "ratelimit") =>
             /\ slast.op = "RateLimit"
             /\ mw'.allowed = slast.allowed /\ mw'.err = slast.err
       /\ (mw.at = "remaining" /\ mw'.at # "remaining") =>
             /\ mw'.allowed = mw.allowed /\ mw'.err = mw.err
       /\ (mw.at # "idle" /\ mw'.at = "idle") =>
             /\ mw'.out \in {"next", "429"}
             /\ mw'.out = "next" <=> (mw'.allowed \/ mw'.err)
             /\ mw'.out = "429" <=> (~mw'.allowed /\ ~mw'.err)]_vars

C38_Witness ==
    /\ mw.at = "idle"
    /\ mw.out = "next"
    /\ mw.err /\ ~mw.allowed


\* C39: whenever nobody holds cacheMutex for writing, userLimitsCache and
\* cacheExpiry have the same keys.
C39_CacheMapsSameKeys ==
    cacheMutex.writer = {} => DOMAIN userLimitsCache = DOMAIN cacheExpiry

C39_Witness ==
    /\ cacheMutex.writer = {}
    /\ setDone["a"] # NoSet
    /\ "a" \notin DOMAIN userLimitsCache
    /\ "a" \notin DOMAIN cacheExpiry


\* C40: an entry enters the cache, or changes, only in the cache write of a
\* SetUserLimit for that identity or in the cache write of a lookup that
\* found a number in the store; a lookup that finds no value, an unparsable
\* one, or that fails goes on to the limiter and leaves the cache alone; so
\* a call for an identity that has no entry asks the store.
C40_NoEntryWithoutOverride ==
    [][/\ \A id \in Identities :
            (/\ id \in DOMAIN userLimitsCache'
             /\ \/ id \notin DOMAIN userLimitsCache
                \/ userLimitsCache'[id] # userLimitsCache[id]
                \/ cacheExpiry'[id] # cacheExpiry[id]) =>
                \E p \in Procs :
                    /\ frame[p].id = id /\ pc'[p] # pc[p]
                    /\ \/ /\ pc[p] = "setcache"
                          /\ userLimitsCache'[id] = frame[p].v
                       \/ /\ pc[p] = "cache"
                          /\ frame[p].storeSeen = "value" /\ ~frame[p].rerr
                          /\ userLimitsCache'[id] = frame[p].ul
       /\ \A p \in Procs :
            (/\ pc[p] = "get" /\ pc'[p] # "get"
             /\ frame'[p].storeSeen # "value") =>
                /\ pc'[p] = "limiter"
                /\ UNCHANGED <<userLimitsCache, cacheExpiry>>
       /\ \A p \in Procs :
            (/\ pc[p] = "idle" /\ pc'[p] # "idle"
             /\ frame'[p].op \in {"RateLimit", "GetRemaining"}
             /\ frame'[p].id \notin DOMAIN userLimitsCache) =>
                pc'[p] = "get"]_vars

C40_Witness ==
    /\ enableLocalCache
    /\ slast.op = "RateLimit"
    /\ slast.storeSeen = "error" /\ slast.lookups = 1
    /\ DOMAIN userLimitsCache = {}
    /\ served >= 2

====
